---- MODULE Spec2Model ----
(***************************************************************************)
(* Model of the hooks subsystem of llxprt-code:                            *)
(*   HookExecutor (hook-executor.ts): executeHooks, executeCommand,        *)
(*   matchesPattern; validateHookSecurity (hook-utils.ts).                 *)
(* Strings are sequences of symbols; JavaScript values that may be         *)
(* undefined or of varying type are tagged records.                        *)
(* Time is in milliseconds and advances from one timer deadline to the     *)
(* next; process events happen at any moment in between.                   *)
(***************************************************************************)
EXTENDS Integers, Sequences, FiniteSets, TLC

\* ------------------------------------------------------------------------
\* Bounds of the model
\* ------------------------------------------------------------------------
\* at most this many 'data' events, over all streams, in one dispatch
MaxData == 2
\* longest path, in characters, given to validatePath
MaxPathLen == 4
\* at most this many results folded by one direct call of the aggregation
MaxResults == 2

\* ------------------------------------------------------------------------
\* JavaScript values
\* ------------------------------------------------------------------------
Undefined == [t |-> "undefined"]
JSNull == [t |-> "null"]
JSStr(s) == [t |-> "string", v |-> s]
JSNum(n) == [t |-> "number", v |-> n]
JSBool(b) == [t |-> "boolean", v |-> b]
JSObj(f) == [t |-> "object", v |-> f]
JSArr(a) == [t |-> "array", v |-> a]

\* ToBoolean of a JavaScript value
Truthy(x) ==
  CASE x.t = "undefined" -> FALSE
    [] x.t = "null" -> FALSE
    [] x.t = "string" -> x.v # <<>>
    [] x.t = "number" -> x.v # 0
    [] x.t = "boolean" -> x.v
    [] x.t = "NaN" -> FALSE
    [] OTHER -> TRUE

\* ------------------------------------------------------------------------
\* String.prototype.trim
\* ------------------------------------------------------------------------
WhiteSpace == {" ", "\n"}

RECURSIVE TrimStart(_)
TrimStart(s) ==
  IF s # <<>> /\ Head(s) \in WhiteSpace THEN TrimStart(Tail(s)) ELSE s

RECURSIVE TrimEnd(_)
TrimEnd(s) ==
  IF s # <<>> /\ s[Len(s)] \in WhiteSpace
    THEN TrimEnd(SubSeq(s, 1, Len(s) - 1))
    ELSE s

Trim(s) == TrimEnd(TrimStart(s))

\* ------------------------------------------------------------------------
\* new RegExp(pattern) and RegExp.prototype.test, for patterns made of
\* literal characters, '.', '*', '|' and parentheses
\* ------------------------------------------------------------------------
ParseFail == [ok |-> FALSE]

RECURSIVE ParseAlt(_, _)
RECURSIVE ParseAltAcc(_, _, _)
RECURSIVE ParseCatAcc(_, _, _)
RECURSIVE ParseRep(_, _)

\* one atom, optionally followed by '*'
ParseRep(p, i) ==
  LET atom ==
        CASE p[i] = "(" ->
               LET r == ParseAlt(p, i + 1)
               IN IF r.ok /\ r.i <= Len(p) /\ p[r.i] = ")"
                    THEN [ok |-> TRUE, ast |-> r.ast, i |-> r.i + 1]
                    ELSE ParseFail
          [] p[i] = "*" -> ParseFail
          [] p[i] = "." -> [ok |-> TRUE, ast |-> [k |-> "any"], i |-> i + 1]
          [] OTHER -> [ok |-> TRUE, ast |-> [k |-> "lit", c |-> p[i]], i |-> i + 1]
  IN IF ~atom.ok THEN ParseFail
     ELSE IF atom.i <= Len(p) /\ p[atom.i] = "*"
       THEN [ok |-> TRUE, ast |-> [k |-> "star", x |-> atom.ast], i |-> atom.i + 1]
       ELSE atom

\* a concatenation: atoms up to '|', ')' or the end
ParseCatAcc(p, i, acc) ==
  IF i > Len(p) \/ p[i] \in {"|", ")"}
    THEN [ok |-> TRUE, ast |-> [k |-> "cat", xs |-> acc], i |-> i]
    ELSE LET r == ParseRep(p, i)
         IN IF r.ok THEN ParseCatAcc(p, r.i, Append(acc, r.ast)) ELSE ParseFail

ParseAltAcc(p, i, acc) ==
  LET r == ParseCatAcc(p, i, <<>>)
  IN IF ~r.ok THEN ParseFail
     ELSE IF r.i <= Len(p) /\ p[r.i] = "|"
       THEN ParseAltAcc(p, r.i + 1, Append(acc, r.ast))
       ELSE [ok |-> TRUE, ast |-> [k |-> "alt", xs |-> Append(acc, r.ast)], i |-> r.i]

ParseAlt(p, i) == ParseAltAcc(p, i, <<>>)

\* the compiled pattern; ok = FALSE stands for the SyntaxError of new RegExp
RegExpCompile(p) ==
  LET r == ParseAlt(p, 1)
  IN IF r.ok /\ r.i = Len(p) + 1 THEN r ELSE ParseFail

RECURSIVE MatchFrom(_, _, _)
RECURSIVE MatchCat(_, _, _)
RECURSIVE MatchStar(_, _, _)

\* the positions of s at which a match of ast that starts in P can end
MatchFrom(ast, s, P) ==
  CASE ast.k = "lit" -> {q + 1 : q \in {x \in P : x < Len(s) /\ s[x + 1] = ast.c}}
    [] ast.k = "any" -> {q + 1 : q \in {x \in P : x < Len(s) /\ s[x + 1] # "\n"}}
    [] ast.k = "star" -> MatchStar(ast.x, s, P)
    [] ast.k = "cat" -> MatchCat(ast.xs, s, P)
    [] ast.k = "alt" -> UNION {MatchFrom(ast.xs[j], s, P) : j \in 1..Len(ast.xs)}

MatchCat(xs, s, P) ==
  IF xs = <<>> THEN P ELSE MatchCat(Tail(xs), s, MatchFrom(Head(xs), s, P))

MatchStar(x, s, P) ==
  LET Q == P \cup MatchFrom(x, s, P)
  IN IF Q = P THEN P ELSE MatchStar(x, s, Q)

\* regex.test(s): the pattern matches somewhere in s
RegExpTest(re, s) == \E start \in 0..Len(s) : MatchFrom(re.ast, s, {start}) # {}

\* ------------------------------------------------------------------------
\* HookExecutor.matchesPattern
\* ------------------------------------------------------------------------
\* mutant of matchesPattern: the pattern is compared with the name instead
\* of being used as a regular expression
matchesPattern_ExactName(hookMatcher, toolName) ==
  IF ~Truthy(hookMatcher.matcher) THEN TRUE
  ELSE IF ~Truthy(toolName) THEN FALSE
  ELSE hookMatcher.matcher = toolName

\* mutant of matchesPattern: a missing tool name selects every matcher
matchesPattern_FailOpen(hookMatcher, toolName) ==
  IF ~Truthy(hookMatcher.matcher) THEN TRUE
  ELSE IF ~Truthy(toolName) THEN TRUE
  ELSE LET regex == RegExpCompile(hookMatcher.matcher.v)
       IN IF regex.ok
            THEN RegExpTest(regex, toolName.v)
            ELSE hookMatcher.matcher = toolName

\* mutant of matchesPattern: a pattern that does not compile selects nothing
matchesPattern_NoFallback(hookMatcher, toolName) ==
  IF ~Truthy(hookMatcher.matcher) THEN TRUE
  ELSE IF ~Truthy(toolName) THEN FALSE
  ELSE LET regex == RegExpCompile(hookMatcher.matcher.v)
       IN IF regex.ok
            THEN RegExpTest(regex, toolName.v)
            ELSE FALSE

matchesPattern(hookMatcher, toolName) ==
  IF ~Truthy(hookMatcher.matcher) THEN TRUE
  ELSE IF ~Truthy(toolName) THEN FALSE
  ELSE LET regex == RegExpCompile(hookMatcher.matcher.v)
       IN IF regex.ok
            THEN RegExpTest(regex, toolName.v)
            ELSE hookMatcher.matcher = toolName

\* ------------------------------------------------------------------------
\* validateHookSecurity: TRUE when it returns, FALSE when it throws
\* ------------------------------------------------------------------------
\* mutant of validateHookSecurity: a timeout of 0 is refused as well
validateHookSecurity_PositiveOnly(command) ==
  IF ~Truthy(command.command) \/ command.command.t # "string" THEN FALSE
  ELSE IF command.timeout # Undefined
    THEN ~(command.timeout.t # "number" \/ command.timeout.v <= 0)
    ELSE TRUE

validateHookSecurity(command) ==
  IF ~Truthy(command.command) \/ command.command.t # "string" THEN FALSE
  ELSE IF command.timeout # Undefined
    THEN ~(command.timeout.t # "number" \/ command.timeout.v < 0)
    ELSE TRUE

\* ------------------------------------------------------------------------
\* path.normalize (POSIX) and validatePath; a path is a sequence of
\* characters over '.', '/' and a letter
\* ------------------------------------------------------------------------
RECURSIVE SplitAcc(_, _, _)
SplitAcc(s, cur, acc) ==
  IF s = <<>> THEN Append(acc, cur)
  ELSE IF Head(s) = "/" THEN SplitAcc(Tail(s), <<>>, Append(acc, cur))
  ELSE SplitAcc(Tail(s), Append(cur, Head(s)), acc)

\* the segments between the separators, empty ones included
Split(s) == SplitAcc(s, <<>>, <<>>)

DotDot == <<".", ".">>

\* normalizeString: drops '' and '.', resolves '..' against the segment before
RECURSIVE NormalizeString(_, _, _)
NormalizeString(segs, res, allowAboveRoot) ==
  IF segs = <<>> THEN res
  ELSE LET seg == Head(segs)
           rest == Tail(segs)
       IN IF seg = <<>> \/ seg = <<".">>
            THEN NormalizeString(rest, res, allowAboveRoot)
          ELSE IF seg = DotDot
            THEN IF res # <<>> /\ res[Len(res)] # DotDot
                   THEN NormalizeString(rest, SubSeq(res, 1, Len(res) - 1),
                                        allowAboveRoot)
                 ELSE IF allowAboveRoot
                   THEN NormalizeString(rest, Append(res, DotDot), allowAboveRoot)
                 ELSE NormalizeString(rest, res, allowAboveRoot)
          ELSE NormalizeString(rest, Append(res, seg), allowAboveRoot)

RECURSIVE JoinPath(_)
JoinPath(segs) ==
  IF segs = <<>> THEN <<>>
  ELSE IF Len(segs) = 1 THEN Head(segs)
  ELSE Head(segs) \o <<"/">> \o JoinPath(Tail(segs))

normalize(path) ==
  IF path = <<>> THEN <<".">>
  ELSE LET isAbsolute == path[1] = "/"
           trailingSeparator == path[Len(path)] = "/"
           body == JoinPath(NormalizeString(Split(path), <<>>, ~isAbsolute))
       IN IF body = <<>>
            THEN IF isAbsolute THEN <<"/">>
                 ELSE IF trailingSeparator THEN <<".", "/">> ELSE <<".">>
          ELSE (IF isAbsolute THEN <<"/">> ELSE <<>>)
                 \o body \o (IF trailingSeparator THEN <<"/">> ELSE <<>>)

\* String.prototype.includes
Includes(s, sub) ==
  \E k \in 1..(Len(s) - Len(sub) + 1) : SubSeq(s, k, k + Len(sub) - 1) = sub

\* the error validatePath throws, "" when it returns
validatePath(path) ==
  IF path.t # "string" THEN "Path must be a string"
  ELSE LET normalizedPath == normalize(path.v)
       IN IF Includes(normalizedPath, <<".", ".", "/">>)
            THEN "Path traversal is not allowed"
            ELSE ""

\* ------------------------------------------------------------------------
\* Inputs of a dispatch
\* ------------------------------------------------------------------------
Bash == <<"B", "a", "s", "h">>
Edit == <<"E", "d", "i", "t">>
Read == <<"R", "e", "a", "d">>

\* hook commands of the configurations; the command text is one symbol
HookCmd(text, timeout) == [command |-> JSStr(<<text>>), timeout |-> timeout]

CmdT1 == HookCmd("sleep 10", JSNum(1))
CmdDefault == HookCmd("check", Undefined)
CmdNegative == HookCmd("valid", JSNum(-1))
CmdEmpty == [command |-> JSStr(<<>>), timeout |-> JSNum(1)]
CmdZero == HookCmd("lint", JSNum(0))

EditOrWrite == <<"E", "d", "i", "t", "|", "W", "r", "i", "t", "e">>

CfgBashEdit ==
  [PreToolUse |-> << [matcher |-> JSStr(Bash), hooks |-> <<CmdT1>>],
                     [matcher |-> JSStr(Edit), hooks |-> <<CmdDefault>>] >>]
CfgNoMatcher ==
  [PreToolUse |-> << [matcher |-> Undefined, hooks |-> <<CmdT1, CmdDefault>>] >>]
CfgTwoMatchers ==
  [PreToolUse |-> << [matcher |-> JSStr(Bash), hooks |-> <<CmdDefault>>],
                     [matcher |-> JSStr(<<>>), hooks |-> <<CmdNegative>>] >>]
CfgEmptyCommand ==
  [PreToolUse |-> << [matcher |-> Undefined, hooks |-> <<CmdEmpty, CmdT1>>] >>]

\* '*' is not a regular expression ("nothing to repeat")
Star == <<"*">>
CfgStar ==
  [PreToolUse |-> << [matcher |-> JSStr(Star), hooks |-> <<CmdT1>>],
                     [matcher |-> JSStr(Bash), hooks |-> <<CmdDefault>>] >>]

CfgEditOrWrite ==
  [PostToolUse |-> << [matcher |-> JSStr(EditOrWrite), hooks |-> <<CmdZero>>] >>]

ToolData ==
  [session_id |-> "s1", transcript_path |-> "/tmp/t", cwd |-> "/app",
   hook_event_name |-> "PreToolUse", tool_name |-> "Bash"]
BadData == [hook_event_name |-> "InvalidEvent"]

Call(eventName, eventData, hookConfig, matcher) ==
  [eventName |-> eventName, eventData |-> eventData,
   hookConfig |-> hookConfig, matcher |-> matcher]

\* the calls of executeHooks that are explored
Calls ==
  { Call("Stop", ToolData, CfgNoMatcher, Undefined),
    Call("Stop", BadData, CfgBashEdit, JSStr(Bash)),
    Call("PreToolUse", ToolData, CfgBashEdit, Undefined),
    Call("PreToolUse", BadData, CfgBashEdit, JSStr(Read)),
    Call("PreToolUse", ToolData, CfgBashEdit, JSStr(Bash)),
    Call("PreToolUse", ToolData, CfgBashEdit, JSStr(Edit)),
    Call("PreToolUse", ToolData, CfgNoMatcher, Undefined),
    Call("PreToolUse", ToolData, CfgTwoMatchers, JSStr(Bash)),
    Call("PreToolUse", BadData, CfgTwoMatchers, JSStr(Edit)),
    Call("PreToolUse", ToolData, CfgEmptyCommand, JSStr(Bash)),
    Call("PostToolUse", ToolData, CfgEditOrWrite, JSStr(Edit)),
    Call("PostToolUse", ToolData, CfgEditOrWrite, JSStr(Bash)),
    Call("PreToolUse", ToolData, CfgTwoMatchers, Undefined),
    Call("PreToolUse", ToolData, CfgStar, JSStr(Bash)),
    Call("PreToolUse", ToolData, CfgStar, JSStr(Star)) }

\* ------------------------------------------------------------------------
\* What a hook process may write and how it may exit
\* ------------------------------------------------------------------------
DecisionBlock == <<"{", "decision:block", ",", "reason:nope", "}">>

OutChunks == {<<"x">>, DecisionBlock}
ErrChunks == {<<"blocked">>, <<" ">>}
ExitCodes == {0, 1, 2}

\* ------------------------------------------------------------------------
\* JSON.parse of a text of JSON tokens; members are single symbols
\* ------------------------------------------------------------------------
Members ==
  [ x \in {"decision:block", "decision:approve", "reason:nope", "continue:false",
           "continue:true", "stopReason:policy", "suppressOutput:true", "context:ctx",
           "reason:other", "stopReason:other", "suppressOutput:false"} |->
    CASE x = "decision:block" -> [key |-> "decision", val |-> JSStr(<<"block">>)]
      [] x = "decision:approve" -> [key |-> "decision", val |-> JSStr(<<"approve">>)]
      [] x = "reason:nope" -> [key |-> "reason", val |-> JSStr(<<"nope">>)]
      [] x = "continue:false" -> [key |-> "continue", val |-> JSBool(FALSE)]
      [] x = "continue:true" -> [key |-> "continue", val |-> JSBool(TRUE)]
      [] x = "stopReason:policy" -> [key |-> "stopReason", val |-> JSStr(<<"policy">>)]
      [] x = "suppressOutput:true" -> [key |-> "suppressOutput", val |-> JSBool(TRUE)]
      [] x = "context:ctx" -> [key |-> "context", val |-> JSStr(<<"ctx">>)]
      [] x = "reason:other" -> [key |-> "reason", val |-> JSStr(<<"other">>)]
      [] x = "stopReason:other" -> [key |-> "stopReason", val |-> JSStr(<<"other">>)]
      [] x = "suppressOutput:false" -> [key |-> "suppressOutput", val |-> JSBool(FALSE)] ]

Scalars ==
  [ x \in {"42", "0", "null", "true", "false", "\"s\""} |->
    CASE x = "42" -> JSNum(42)
      [] x = "0" -> JSNum(0)
      [] x = "null" -> JSNull
      [] x = "true" -> JSBool(TRUE)
      [] x = "false" -> JSBool(FALSE)
      [] x = "\"s\"" -> JSStr(<<"s">>) ]

JsonFail == [ok |-> FALSE]

\* the tokens of a text without the white space between them
NoSpace(s) == SelectSeq(s, LAMBDA c : c \notin WhiteSpace)

\* members of an object from token i on: member (',' member)* '}'
RECURSIVE JsonMembers(_, _, _)
JsonMembers(s, i, obj) ==
  IF i + 1 > Len(s) \/ s[i] \notin DOMAIN Members THEN JsonFail
  ELSE LET m == Members[s[i]]
           o == [k \in DOMAIN obj \cup {m.key} |-> IF k = m.key THEN m.val ELSE obj[k]]
       IN CASE s[i + 1] = "}" /\ i + 1 = Len(s) -> [ok |-> TRUE, val |-> JSObj(o)]
            [] s[i + 1] = "," -> JsonMembers(s, i + 2, o)
            [] OTHER -> JsonFail

\* ok = FALSE stands for the SyntaxError of JSON.parse
JsonParse(text) ==
  LET s == NoSpace(text)
  IN CASE Len(s) = 1 /\ s[1] \in DOMAIN Scalars -> [ok |-> TRUE, val |-> Scalars[s[1]]]
       [] Len(s) = 2 /\ s = <<"{", "}">> -> [ok |-> TRUE, val |-> JSObj(<<>>)]
       [] Len(s) = 2 /\ s = <<"[", "]">> -> [ok |-> TRUE, val |-> [t |-> "array", v |-> <<>>]]
       [] Len(s) > 2 /\ s[1] = "{" -> JsonMembers(s, 2, <<>>)
       [] OTHER -> JsonFail

\* property read obj.key of a parsed value (undefined when absent)
Get(x, key) ==
  IF x.t = "object" /\ key \in DOMAIN x.v THEN x.v[key] ELSE Undefined

\* ------------------------------------------------------------------------
\* State
\* ------------------------------------------------------------------------
VARIABLES
  pc,        \* position of executeHooks: "idle", "joining", "returned", "thrown"
  args,      \* the arguments of the call
  child,     \* child[i]: the i-th executeCommand of the call, in request order
  ret,       \* the HookExecutionResult returned by executeHooks
  now,       \* the clock, in ms
  call       \* the last direct call of a pure function: name, input, output

vars == <<pc, args, child, ret, now, call>>

NoArgs == Call("", [hook_event_name |-> ""], [Notification |-> <<>>], Undefined)
NoResult == [set |-> FALSE]
NoTimer == -1
NoCall == [fn |-> "none"]

DEFAULT_TIMEOUT == 60
\* mutant of GRACE_MS: the delay of the outer timer's constant, taken as ms
GRACE_MS_WrongConstant == DEFAULT_TIMEOUT

GRACE_MS == 5000
\* exit code reported by 'close' after a failed spawn (ENOENT)
UV_ENOENT == -2

Children == DOMAIN child

\* ------------------------------------------------------------------------
\* executeHooks, up to the await
\* ------------------------------------------------------------------------
\* hookConfig[eventName] || []
MatchersOf(hookConfig, eventName) ==
  IF eventName \in DOMAIN hookConfig THEN hookConfig[eventName] ELSE <<>>

RECURSIVE FlatHooks(_)
FlatHooks(ms) ==
  IF ms = <<>> THEN <<>> ELSE Head(ms).hooks \o FlatHooks(Tail(ms))

\* mutant of Requests: the matchers are not filtered by the match key
Requests_NoFilter(eventName, hookConfig, matcher) ==
  FlatHooks(MatchersOf(hookConfig, eventName))

\* the commands executeHooks launches, in request order
Requests(eventName, hookConfig, matcher) ==
  FlatHooks(SelectSeq(MatchersOf(hookConfig, eventName),
                      LAMBDA m : matchesPattern(m, matcher)))

\* command.timeout || DEFAULT_TIMEOUT, times 1000
TimeoutMs(command) ==
  LET timeoutSeconds == IF Truthy(command.timeout) THEN command.timeout
                        ELSE JSNum(DEFAULT_TIMEOUT)
  IN IF timeoutSeconds.t = "number" THEN JSNum(timeoutSeconds.v * 1000)
     ELSE [t |-> "NaN"]

\* the delay setTimeout uses for a given argument
TimerDelay(ms) ==
  IF ms.t = "number" /\ ms.v >= 1 /\ ms.v <= 2147483647 THEN ms.v ELSE 1

\* child_process.spawn throws for a file that is not a non-empty string
SpawnThrows(command) ==
  command.command.t # "string" \/ command.command.v = <<>>

\* JSON.stringify of an object with string members: its members as
\* (key, value) pairs
JsonStringify(obj) == [json |-> {<<k, obj[k]>> : k \in DOMAIN obj}]

\* mutant of StdinWrites: the input stream is left open
StdinWrites_LeftOpen(eventData) ==
  <<[op |-> "write", data |-> JsonStringify(eventData)]>>

\* child.stdin.write(JSON.stringify(eventData)); child.stdin.end()
StdinWrites(eventData) ==
  <<[op |-> "write", data |-> JsonStringify(eventData)], [op |-> "end"]>>

\* the environment of the host process
HostEnv == {"PATH", "HOME", "AWS_SECRET_KEY", "DB_PASSWORD", "API_TOKEN"}

\* the environment of the spawned process: the options give no env, so
\* spawn passes process.env
SpawnEnv == HostEnv

\* the runner right after the synchronous part of executeCommand
\* osOk: the OS started the process; otherwise 'error' is emitted later
NewChild(command, eventData, osOk) ==
  [ cmd       |-> command,
    phase     |-> IF SpawnThrows(command) THEN "rejected"
                  ELSE IF osOk THEN "running" ELSE "spawnerr",
    termPending |-> FALSE,
    killPending |-> FALSE,
    exitCode  |-> JSNull,
    sentOut   |-> <<>>,
    sentErr   |-> <<>>,
    nOut      |-> 0,
    nErr      |-> 0,
    stdout    |-> <<>>,
    stderr    |-> <<>>,
    error     |-> Undefined,
    timedOut  |-> FALSE,
    timeoutAt |-> IF SpawnThrows(command) THEN NoTimer
                  ELSE now + TimerDelay(TimeoutMs(command)),
    graceAt   |-> NoTimer,
    killed    |-> FALSE,
    kills     |-> <<>>,
    stdin     |-> IF SpawnThrows(command) THEN <<>> ELSE StdinWrites(eventData),
    env       |-> IF SpawnThrows(command) THEN {} ELSE SpawnEnv,
    closeOrd  |-> 0,
    result    |-> NoResult ]

ExecuteHooks(eventName, eventData, hookConfig, matcher) ==
  /\ pc = "idle"
  /\ LET reqs == Requests(eventName, hookConfig, matcher)
     IN /\ \E osOk \in [1..Len(reqs) -> BOOLEAN] :
             child' = [i \in 1..Len(reqs) |-> NewChild(reqs[i], eventData, osOk[i])]
        \* a rejected promise makes Promise.all reject before any event is handled
        /\ pc' = IF \E i \in 1..Len(reqs) : SpawnThrows(reqs[i])
                   THEN "thrown" ELSE "joining"
  /\ args' = Call(eventName, eventData, hookConfig, matcher)
  /\ UNCHANGED <<call, ret, now>>

Init ==
  /\ pc = "idle"
  /\ args = NoArgs
  /\ child = <<>>
  /\ ret = NoResult
  /\ now = 0
  /\ call = NoCall

\* ------------------------------------------------------------------------
\* executeCommand: the handlers of one runner
\* ------------------------------------------------------------------------
\* child.kill(sig): the signal is sent only while the process handle exists;
\* child.killed becomes true when a signal was sent
Kill(c, sig, delivered) ==
  [c EXCEPT !.killed = c.killed \/ delivered,
            !.kills = Append(c.kills, [sig |-> sig, at |-> now, sent |-> delivered])]

RECURSIVE SumData(_)
SumData(i) == IF i = 0 THEN 0 ELSE child[i].nOut + child[i].nErr + SumData(i - 1)

\* the number of 'data' events handled so far
DataEvents == SumData(Len(child))

\* mutant of StdoutData: one stdout buffer shared by the runners of a call
StdoutData_Shared(i, data) ==
  /\ i \in Children
  /\ child[i].phase = "running"
  /\ DataEvents < MaxData
  /\ child' = [j \in Children |->
                 IF j = i
                   THEN [child[j] EXCEPT !.stdout = child[j].stdout \o data,
                                         !.sentOut = child[j].sentOut \o data,
                                         !.nOut = child[j].nOut + 1]
                   ELSE IF child[j].phase = "running"
                     THEN [child[j] EXCEPT !.stdout = child[j].stdout \o data]
                     ELSE child[j]]
  /\ UNCHANGED <<call, pc, args, ret, now>>

\* child.stdout.on('data')
StdoutData(i, data) ==
  /\ i \in Children
  /\ child[i].phase = "running"
  /\ DataEvents < MaxData
  /\ child' = [child EXCEPT ![i].stdout = child[i].stdout \o data,
                            ![i].sentOut = child[i].sentOut \o data,
                            ![i].nOut = child[i].nOut + 1]
  /\ UNCHANGED <<call, pc, args, ret, now>>

\* child.stderr.on('data')
StderrData(i, data) ==
  /\ i \in Children
  /\ child[i].phase = "running"
  /\ DataEvents < MaxData
  /\ child' = [child EXCEPT ![i].stderr = child[i].stderr \o data,
                            ![i].sentErr = child[i].sentErr \o data,
                            ![i].nErr = child[i].nErr + 1]
  /\ UNCHANGED <<call, pc, args, ret, now>>

\* the process exits by itself with an exit code
ProcessExit(i, code) ==
  /\ i \in Children
  /\ child[i].phase = "running"
  /\ child' = [child EXCEPT ![i].phase = "exited", ![i].exitCode = JSNum(code)]
  /\ UNCHANGED <<call, pc, args, ret, now>>

\* the process is terminated by a signal it received: no exit code
ProcessKilled(i) ==
  /\ i \in Children
  /\ child[i].phase = "running"
  /\ child[i].termPending \/ child[i].killPending
  /\ child' = [child EXCEPT ![i].phase = "exited", ![i].exitCode = JSNull]
  /\ UNCHANGED <<call, pc, args, ret, now>>

\* child.on('error'): the OS could not start the process
ChildError(i) ==
  /\ i \in Children
  /\ child[i].phase = "spawnerr"
  /\ child' = [child EXCEPT ![i].phase = "exited",
                            ![i].error = JSStr(<<"ENOENT">>),
                            ![i].exitCode = JSNum(UV_ENOENT)]
  /\ UNCHANGED <<call, pc, args, ret, now>>

\* the callback of the timeout timer
TimeoutFire(i) ==
  /\ i \in Children
  /\ child[i].timeoutAt # NoTimer
  /\ child[i].timeoutAt <= now
  /\ LET delivered == child[i].phase = "running"
     IN \E dies \in BOOLEAN :
          /\ delivered \/ ~dies
          /\ child' = [child EXCEPT ![i] =
               [Kill(child[i], "SIGTERM", delivered) EXCEPT
                  !.timedOut = TRUE,
                  !.timeoutAt = NoTimer,
                  !.termPending = dies,
                  !.graceAt = now + TimerDelay(JSNum(GRACE_MS))]]
  /\ UNCHANGED <<call, pc, args, ret, now>>

\* the callback of the inner timer
GraceFire(i) ==
  /\ i \in Children
  /\ child[i].graceAt # NoTimer
  /\ child[i].graceAt <= now
  /\ LET delivered == child[i].phase = "running"
         c == [child[i] EXCEPT !.graceAt = NoTimer]
     IN child' = [child EXCEPT ![i] =
          IF ~c.killed
            THEN [Kill(c, "SIGKILL", delivered) EXCEPT
                    !.killPending = c.killPending \/ delivered]
            ELSE c]
  /\ UNCHANGED <<call, pc, args, ret, now>>

\* mutant of MakeResult: timedOut as it was when the promise was created
MakeResult_StaleTimedOut(c) ==
  LET text == Trim(c.stdout)
      parsed == IF text # <<>> THEN JsonParse(text) ELSE JsonFail
  IN [ set        |-> TRUE,
       success    |-> c.exitCode = JSNum(0),
       exitCode   |-> IF c.exitCode = JSNull THEN -1 ELSE c.exitCode.v,
       stdout     |-> Trim(c.stdout),
       stderr     |-> Trim(c.stderr),
       timedOut   |-> FALSE,
       error      |-> c.error,
       jsonOutput |-> IF parsed.ok THEN parsed.val ELSE Undefined ]

\* mutant of MakeResult: the buffers are reported as received, untrimmed
MakeResult_NoTrim(c) ==
  LET text == Trim(c.stdout)
      parsed == IF text # <<>> THEN JsonParse(text) ELSE JsonFail
  IN [ set        |-> TRUE,
       success    |-> c.exitCode = JSNum(0),
       exitCode   |-> IF c.exitCode = JSNull THEN -1 ELSE c.exitCode.v,
       stdout     |-> c.stdout,
       stderr     |-> c.stderr,
       timedOut   |-> c.timedOut,
       error      |-> c.error,
       jsonOutput |-> IF parsed.ok THEN parsed.val ELSE Undefined ]

\* the HookResult built by the 'close' handler
MakeResult(c) ==
  LET text == Trim(c.stdout)
      parsed == IF text # <<>> THEN JsonParse(text) ELSE JsonFail
  IN [ set        |-> TRUE,
       success    |-> c.exitCode = JSNum(0),
       exitCode   |-> IF c.exitCode = JSNull THEN -1 ELSE c.exitCode.v,
       stdout     |-> Trim(c.stdout),
       stderr     |-> Trim(c.stderr),
       timedOut   |-> c.timedOut,
       error      |-> c.error,
       jsonOutput |-> IF parsed.ok THEN parsed.val ELSE Undefined ]

\* the runners whose promise is resolved
Closed == {j \in Children : child[j].phase = "closed"}

\* child.on('close'); closeOrd records as the how manyth of the call the
\* promise was resolved
ChildClose(i) ==
  /\ i \in Children
  /\ child[i].phase = "exited"
  /\ child' = [child EXCEPT ![i].phase = "closed",
                            ![i].timeoutAt = NoTimer,
                            ![i].closeOrd = Cardinality(Closed) + 1,
                            ![i].result = MakeResult(child[i])]
  /\ UNCHANGED <<call, pc, args, ret, now>>

\* ------------------------------------------------------------------------
\* executeHooks, after the await
\* ------------------------------------------------------------------------
\* mutant of InitialDecision: the fold starts from "do not continue"
InitialDecision_Stopped ==
  [ shouldBlock |-> FALSE, blockReason |-> Undefined,
    shouldContinue |-> FALSE, stopReason |-> Undefined, contextToAdd |-> <<>> ]

InitialDecision ==
  [ shouldBlock |-> FALSE, blockReason |-> Undefined,
    shouldContinue |-> TRUE, stopReason |-> Undefined, contextToAdd |-> <<>> ]

\* mutant of ProcessResult: the exit-code-2 rule looks at stdout, not stderr
ProcessResult_WrongStream(d, result) ==
  LET json == result.jsonOutput
      d1 == IF result.exitCode = 2 /\ result.stdout # <<>>
              THEN [d EXCEPT !.shouldBlock = TRUE, !.blockReason = JSStr(result.stderr)]
              ELSE d
      d2 == IF Truthy(json) /\ Get(json, "decision") = JSStr(<<"block">>)
              THEN [d1 EXCEPT !.shouldBlock = TRUE, !.blockReason = Get(json, "reason")]
              ELSE d1
      d3 == IF Truthy(json) /\ Get(json, "continue") = JSBool(FALSE)
              THEN [d2 EXCEPT !.shouldContinue = FALSE, !.stopReason = Get(json, "stopReason")]
              ELSE d2
      d4 == IF Truthy(json) /\ Truthy(Get(json, "context")) /\ result.exitCode = 0
              THEN [d3 EXCEPT !.contextToAdd = Append(@, Get(json, "context"))]
              ELSE d3
  IN IF result.exitCode = 0 /\ result.stdout # <<>> /\ ~Truthy(Get(json, "suppressOutput"))
       THEN [d4 EXCEPT !.contextToAdd = Append(@, JSStr(result.stdout))]
       ELSE d4

\* mutant of ProcessResult: a block reason, once set, is kept
ProcessResult_FirstReasonWins(d, result) ==
  LET json == result.jsonOutput
      d1 == IF result.exitCode = 2 /\ result.stderr # <<>>
              THEN [d EXCEPT !.shouldBlock = TRUE,
                             !.blockReason = IF d.shouldBlock THEN @ ELSE JSStr(result.stderr)]
              ELSE d
      d2 == IF Truthy(json) /\ Get(json, "decision") = JSStr(<<"block">>)
              THEN [d1 EXCEPT !.shouldBlock = TRUE,
                              !.blockReason = IF d1.shouldBlock THEN @ ELSE Get(json, "reason")]
              ELSE d1
      d3 == IF Truthy(json) /\ Get(json, "continue") = JSBool(FALSE)
              THEN [d2 EXCEPT !.shouldContinue = FALSE, !.stopReason = Get(json, "stopReason")]
              ELSE d2
      d4 == IF Truthy(json) /\ Truthy(Get(json, "context")) /\ result.exitCode = 0
              THEN [d3 EXCEPT !.contextToAdd = Append(@, Get(json, "context"))]
              ELSE d3
  IN IF result.exitCode = 0 /\ result.stdout # <<>> /\ ~Truthy(Get(json, "suppressOutput"))
       THEN [d4 EXCEPT !.contextToAdd = Append(@, JSStr(result.stdout))]
       ELSE d4

\* mutant of ProcessResult: a structured output without continue stops as well
ProcessResult_FalsyContinue(d, result) ==
  LET json == result.jsonOutput
      d1 == IF result.exitCode = 2 /\ result.stderr # <<>>
              THEN [d EXCEPT !.shouldBlock = TRUE, !.blockReason = JSStr(result.stderr)]
              ELSE d
      d2 == IF Truthy(json) /\ Get(json, "decision") = JSStr(<<"block">>)
              THEN [d1 EXCEPT !.shouldBlock = TRUE, !.blockReason = Get(json, "reason")]
              ELSE d1
      d3 == IF Truthy(json) /\ ~Truthy(Get(json, "continue"))
              THEN [d2 EXCEPT !.shouldContinue = FALSE, !.stopReason = Get(json, "stopReason")]
              ELSE d2
      d4 == IF Truthy(json) /\ Truthy(Get(json, "context")) /\ result.exitCode = 0
              THEN [d3 EXCEPT !.contextToAdd = Append(@, Get(json, "context"))]
              ELSE d3
  IN IF result.exitCode = 0 /\ result.stdout # <<>> /\ ~Truthy(Get(json, "suppressOutput"))
       THEN [d4 EXCEPT !.contextToAdd = Append(@, JSStr(result.stdout))]
       ELSE d4

\* mutant of ProcessResult: every failing exit code with stderr blocks
ProcessResult_AnyFailureBlocks(d, result) ==
  LET json == result.jsonOutput
      d1 == IF result.exitCode # 0 /\ result.stderr # <<>>
              THEN [d EXCEPT !.shouldBlock = TRUE, !.blockReason = JSStr(result.stderr)]
              ELSE d
      d2 == IF Truthy(json) /\ Get(json, "decision") = JSStr(<<"block">>)
              THEN [d1 EXCEPT !.shouldBlock = TRUE, !.blockReason = Get(json, "reason")]
              ELSE d1
      d3 == IF Truthy(json) /\ Get(json, "continue") = JSBool(FALSE)
              THEN [d2 EXCEPT !.shouldContinue = FALSE, !.stopReason = Get(json, "stopReason")]
              ELSE d2
      d4 == IF Truthy(json) /\ Truthy(Get(json, "context")) /\ result.exitCode = 0
              THEN [d3 EXCEPT !.contextToAdd = Append(@, Get(json, "context"))]
              ELSE d3
  IN IF result.exitCode = 0 /\ result.stdout # <<>> /\ ~Truthy(Get(json, "suppressOutput"))
       THEN [d4 EXCEPT !.contextToAdd = Append(@, JSStr(result.stdout))]
       ELSE d4

\* mutant of ProcessResult: a later decision 'approve' cancels the block
ProcessResult_ApproveUnblocks(d, result) ==
  LET json == result.jsonOutput
      d1 == IF result.exitCode = 2 /\ result.stderr # <<>>
              THEN [d EXCEPT !.shouldBlock = TRUE, !.blockReason = JSStr(result.stderr)]
              ELSE d
      d2 == IF Truthy(json) /\ Get(json, "decision") = JSStr(<<"block">>)
              THEN [d1 EXCEPT !.shouldBlock = TRUE, !.blockReason = Get(json, "reason")]
              ELSE IF Truthy(json) /\ Get(json, "decision") = JSStr(<<"approve">>)
                THEN [d1 EXCEPT !.shouldBlock = FALSE, !.blockReason = Undefined]
                ELSE d1
      d3 == IF Truthy(json) /\ Get(json, "continue") = JSBool(FALSE)
              THEN [d2 EXCEPT !.shouldContinue = FALSE, !.stopReason = Get(json, "stopReason")]
              ELSE d2
      d4 == IF Truthy(json) /\ Truthy(Get(json, "context")) /\ result.exitCode = 0
              THEN [d3 EXCEPT !.contextToAdd = Append(@, Get(json, "context"))]
              ELSE d3
  IN IF result.exitCode = 0 /\ result.stdout # <<>> /\ ~Truthy(Get(json, "suppressOutput"))
       THEN [d4 EXCEPT !.contextToAdd = Append(@, JSStr(result.stdout))]
       ELSE d4

\* mutant of ProcessResult: a result that timed out blocks
ProcessResult_TimeoutBlocks(d, result) ==
  LET json == result.jsonOutput
      d0 == IF result.timedOut
              THEN [d EXCEPT !.shouldBlock = TRUE, !.blockReason = JSStr(<<"timed out">>)]
              ELSE d
      d1 == IF result.exitCode = 2 /\ result.stderr # <<>>
              THEN [d0 EXCEPT !.shouldBlock = TRUE, !.blockReason = JSStr(result.stderr)]
              ELSE d0
      d2 == IF Truthy(json) /\ Get(json, "decision") = JSStr(<<"block">>)
              THEN [d1 EXCEPT !.shouldBlock = TRUE, !.blockReason = Get(json, "reason")]
              ELSE d1
      d3 == IF Truthy(json) /\ Get(json, "continue") = JSBool(FALSE)
              THEN [d2 EXCEPT !.shouldContinue = FALSE, !.stopReason = Get(json, "stopReason")]
              ELSE d2
      d4 == IF Truthy(json) /\ Truthy(Get(json, "context")) /\ result.exitCode = 0
              THEN [d3 EXCEPT !.contextToAdd = Append(@, Get(json, "context"))]
              ELSE d3
  IN IF result.exitCode = 0 /\ result.stdout # <<>> /\ ~Truthy(Get(json, "suppressOutput"))
       THEN [d4 EXCEPT !.contextToAdd = Append(@, JSStr(result.stdout))]
       ELSE d4

\* mutant of ProcessResult: the structured context is taken whatever the exit code
ProcessResult_ContextAnyExit(d, result) ==
  LET json == result.jsonOutput
      d1 == IF result.exitCode = 2 /\ result.stderr # <<>>
              THEN [d EXCEPT !.shouldBlock = TRUE, !.blockReason = JSStr(result.stderr)]
              ELSE d
      d2 == IF Truthy(json) /\ Get(json, "decision") = JSStr(<<"block">>)
              THEN [d1 EXCEPT !.shouldBlock = TRUE, !.blockReason = Get(json, "reason")]
              ELSE d1
      d3 == IF Truthy(json) /\ Get(json, "continue") = JSBool(FALSE)
              THEN [d2 EXCEPT !.shouldContinue = FALSE, !.stopReason = Get(json, "stopReason")]
              ELSE d2
      d4 == IF Truthy(json) /\ Truthy(Get(json, "context"))
              THEN [d3 EXCEPT !.contextToAdd = Append(@, Get(json, "context"))]
              ELSE d3
  IN IF result.exitCode = 0 /\ result.stdout # <<>> /\ ~Truthy(Get(json, "suppressOutput"))
       THEN [d4 EXCEPT !.contextToAdd = Append(@, JSStr(result.stdout))]
       ELSE d4

\* one iteration of the loop over the results
ProcessResult(d, result) ==
  LET json == result.jsonOutput
      d1 == IF result.exitCode = 2 /\ result.stderr # <<>>
              THEN [d EXCEPT !.shouldBlock = TRUE, !.blockReason = JSStr(result.stderr)]
              ELSE d
      d2 == IF Truthy(json) /\ Get(json, "decision") = JSStr(<<"block">>)
              THEN [d1 EXCEPT !.shouldBlock = TRUE, !.blockReason = Get(json, "reason")]
              ELSE d1
      d3 == IF Truthy(json) /\ Get(json, "continue") = JSBool(FALSE)
              THEN [d2 EXCEPT !.shouldContinue = FALSE, !.stopReason = Get(json, "stopReason")]
              ELSE d2
      d4 == IF Truthy(json) /\ Truthy(Get(json, "context")) /\ result.exitCode = 0
              THEN [d3 EXCEPT !.contextToAdd = Append(@, Get(json, "context"))]
              ELSE d3
  IN IF result.exitCode = 0 /\ result.stdout # <<>> /\ ~Truthy(Get(json, "suppressOutput"))
       THEN [d4 EXCEPT !.contextToAdd = Append(@, JSStr(result.stdout))]
       ELSE d4

RECURSIVE ProcessResults(_, _)
ProcessResults(d, results) ==
  IF results = <<>> THEN d
  ELSE ProcessResults(ProcessResult(d, Head(results)), Tail(results))

\* mutant of HookResults: the values in the order the promises resolved
HookResults_CompletionOrder ==
  [k \in 1..Cardinality(Closed) |->
     child[CHOOSE j \in Closed : child[j].closeOrd = k].result]

\* hookResults of Promise.all: the values of the promises in request order
HookResults == [i \in Children |-> child[i].result]

\* mutant of Join: the loop runs over the results in the order in which the
\* processes completed
Join_FoldInCompletionOrder ==
  /\ pc = "joining"
  /\ \A i \in Children : child[i].result.set
  /\ LET results == HookResults
         d == ProcessResults(InitialDecision, HookResults_CompletionOrder)
     IN ret' = [ set |-> TRUE, results |-> results,
                 shouldBlock |-> d.shouldBlock, blockReason |-> d.blockReason,
                 shouldContinue |-> d.shouldContinue, stopReason |-> d.stopReason,
                 contextToAdd |-> d.contextToAdd ]
  /\ pc' = "returned"
  /\ UNCHANGED <<call, args, child, now>>

\* the continuation of executeHooks once Promise.all has resolved
Join ==
  /\ pc = "joining"
  /\ \A i \in Children : child[i].result.set
  /\ LET results == HookResults
         d == ProcessResults(InitialDecision, results)
     IN ret' = [ set |-> TRUE, results |-> results,
                 shouldBlock |-> d.shouldBlock, blockReason |-> d.blockReason,
                 shouldContinue |-> d.shouldContinue, stopReason |-> d.stopReason,
                 contextToAdd |-> d.contextToAdd ]
  /\ pc' = "returned"
  /\ UNCHANGED <<call, args, child, now>>

\* ------------------------------------------------------------------------
\* Time
\* ------------------------------------------------------------------------
Deadlines ==
  ({child[i].timeoutAt : i \in Children} \cup {child[i].graceAt : i \in Children})
    \ {NoTimer}

\* time passes up to the next deadline; a due timer runs first, and so does
\* the 'error' event of a failed spawn (emitted on the next tick)
Advance ==
  /\ Deadlines # {}
  /\ \A t \in Deadlines : t > now
  /\ \A i \in Children : child[i].phase # "spawnerr"
  /\ now' = CHOOSE t \in Deadlines : \A u \in Deadlines : t <= u
  /\ UNCHANGED <<call, pc, args, child, ret>>

\* ------------------------------------------------------------------------
\* Specification
\* ------------------------------------------------------------------------
Start ==
  \E c \in Calls : ExecuteHooks(c.eventName, c.eventData, c.hookConfig, c.matcher)

Next ==
  \/ Start
  \/ \E i \in Children, data \in OutChunks : StdoutData(i, data)
  \/ \E i \in Children, data \in ErrChunks : StderrData(i, data)
  \/ \E i \in Children, code \in ExitCodes : ProcessExit(i, code)
  \/ \E i \in Children : ProcessKilled(i)
  \/ \E i \in Children : ChildError(i)
  \/ \E i \in Children : TimeoutFire(i)
  \/ \E i \in Children : GraceFire(i)
  \/ \E i \in Children : ChildClose(i)
  \/ Join
  \/ Advance

Spec == Init /\ [][Next]_vars

\* The event loop runs every due timer and every pending event, the clock
\* advances, a process that received a signal it does not ignore dies, and
\* 'close' follows the exit of a process.  A process is not bound to exit by
\* itself or to write anything.
Fairness ==
  /\ WF_vars(Start)
  /\ WF_vars(Advance)
  /\ WF_vars(Join)
  /\ WF_vars(\E i \in Children : ChildError(i))
  /\ WF_vars(\E i \in Children : TimeoutFire(i))
  /\ WF_vars(\E i \in Children : GraceFire(i))
  /\ WF_vars(\E i \in Children : ProcessKilled(i))
  /\ WF_vars(\E i \in Children : ChildClose(i))

FairSpec == Spec /\ Fairness

\* ========================================================================
\* Direct calls of the pure functions
\* ========================================================================
\* the error validateHookSecurity throws, "" when it returns
HookSecurityError(command) ==
  IF ~Truthy(command.command) \/ command.command.t # "string"
    THEN "Hook must have a valid command string"
  ELSE IF command.timeout # Undefined
            /\ (command.timeout.t # "number" \/ command.timeout.v < 0)
    THEN "Hook timeout must be a positive number"
  ELSE ""

\* values a settings file can give the fields of a hook command
CommandValues ==
  { Undefined, JSNull, JSStr(<<>>), JSNum(123), JSObj(<<>>), JSArr(<<>>),
    JSStr(<<"valid">>),
    JSStr(<<"echo", ";", "rm">>),
    JSStr(<<"echo", "|", "bash">>),
    JSStr(<<"echo", "BACKTICK", "curl", "BACKTICK">>) }
TimeoutValues ==
  { Undefined, JSNull, JSNum(0), JSNum(1), JSNum(5), JSNum(-1),
    JSStr(<<"invalid">>), JSBool(TRUE) }

ValidateHookSecurity(command) ==
  /\ call' = [fn |-> "validateHookSecurity", in |-> command,
              out |-> validateHookSecurity(command),
              err |-> HookSecurityError(command)]
  /\ UNCHANGED <<pc, args, child, ret, now>>

PathChars == {".", "/", "a"}
\* every path of at most MaxPathLen characters, the paths of the tests
\* (shortened to one-letter names), and values that are not strings
PathValues ==
  {JSStr(p) : p \in UNION {[1..n -> PathChars] : n \in 0..MaxPathLen}}
    \cup { JSStr(<<".", ".", "/", ".", ".", "/", ".", ".", "/", "a", "/", "a">>),
           JSStr(<<".", "/", "a", "/", ".", ".", "/", ".", ".", "/", ".", ".",
                   "/", "a", "/", "a">>),
           JSStr(<<".", ".", ".", ".", "/", "/", ".", ".", ".", ".", "/", "/",
                   "a", "/", "a">>),
           JSStr(<<"/", "a", "/", "a", "/", "a", ".", "a">>),
           JSStr(<<".", "/", "a", "/", "a", ".", "a">>),
           JSNull, Undefined, JSArr(<<>>) }

ValidatePath(path) ==
  /\ call' = [fn |-> "validatePath", in |-> path, out |-> validatePath(path) = "",
              err |-> validatePath(path)]
  /\ UNCHANGED <<pc, args, child, ret, now>>

Write == <<"W", "r", "i", "t", "e">>
MultiEdit == <<"M", "u", "l", "t", "i">> \o Edit
MyTool == <<"M", "y", "T", "o", "o", "l">>
AnyTool == <<"A", "n", "y", "T", "o", "o", "l">>
DotStarTool == <<".", "*", "T", "o", "o", "l">>
EditWriteMultiEdit == <<"(">> \o EditOrWrite \o <<"|">> \o MultiEdit \o <<")">>

PatternValues ==
  { Undefined, JSStr(<<>>), JSStr(Bash), JSStr(Edit), JSStr(EditOrWrite),
    JSStr(DotStarTool), JSStr(EditWriteMultiEdit), JSStr(<<"i", "t">>),
    JSStr(<<".", "*">>), JSStr(Star), JSStr(<<"(">>), JSStr(Bash \o <<"(">>) }
ToolNameValues ==
  { Undefined, JSStr(<<>>), JSStr(Bash), JSStr(Edit), JSStr(Write), JSStr(Read),
    JSStr(MultiEdit), JSStr(MyTool), JSStr(AnyTool), JSStr(Star),
    JSStr(<<"(">>), JSStr(Bash \o <<"(">>) }

MatchesPattern(pattern, toolName) ==
  /\ call' = [fn |-> "matchesPattern",
              in |-> [matcher |-> pattern, toolName |-> toolName],
              out |-> matchesPattern([matcher |-> pattern, hooks |-> <<>>],
                                     toolName),
              err |-> ""]
  /\ UNCHANGED <<pc, args, child, ret, now>>

\* what a hook may have written to stdout when it closes
StdoutTexts ==
  { <<>>, <<" ">>, <<"x">>, DecisionBlock, <<"{", "}">>, <<"[", "]">>,
    <<"42">>, <<"\"s\"">>, <<"true">>, <<"null">>,
    <<" ", "{", "decision:block", "}", "\n">>,
    <<"{", "decision:block">>,
    DecisionBlock \o DecisionBlock,
    <<"x", "\n">> \o DecisionBlock }
CloseCodes == {JSNum(0), JSNum(2), JSNull}

\* the 'close' handler of a runner whose process wrote text and ended with code
Close(text, code) ==
  /\ call' = [fn |-> "close", in |-> [stdout |-> text, exitCode |-> code],
              out |-> MakeResult([NewChild(CmdDefault, ToolData, TRUE)
                                    EXCEPT !.stdout = text, !.exitCode = code]),
              err |-> ""]
  /\ UNCHANGED <<pc, args, child, ret, now>>

PureNext ==
  \/ \E text \in StdoutTexts, code \in CloseCodes : Close(text, code)
  \/ \E pattern \in PatternValues, toolName \in ToolNameValues :
       MatchesPattern(pattern, toolName)
  \/ \E path \in PathValues : ValidatePath(path)
  \/ \E c \in CommandValues, t \in TimeoutValues :
       ValidateHookSecurity([command |-> c, timeout |-> t])

PureSpec == Init /\ [][PureNext]_vars

\* ------------------------------------------------------------------------
\* Direct calls of the aggregation: executeHooks from the resolved promises on
\* ------------------------------------------------------------------------
\* an output with the timedOut flag and the error the runner had set
HookOutcome(stdout, stderr, exitCode, timedOut, error) ==
  [stdout |-> stdout, stderr |-> stderr, exitCode |-> exitCode,
   timedOut |-> timedOut, error |-> error]

HookOutput(stdout, stderr, exitCode) ==
  HookOutcome(stdout, stderr, exitCode, FALSE, Undefined)

ScenarioD ==
  <<"{", "decision:block", ",", "reason:nope", ",", "continue:false", ",",
    "stopReason:policy", "}">>

\* what a hook process may have written and how it may have ended
HookOutputs ==
  { HookOutput(<<>>, <<>>, JSNum(0)),
    HookOutput(<<"x">>, <<>>, JSNum(0)),
    HookOutput(<<"x">>, <<"blocked">>, JSNum(1)),
    HookOutput(<<>>, <<"blocked">>, JSNum(2)),
    HookOutput(<<"x">>, <<" ">>, JSNum(2)),
    HookOutput(<<"x">>, <<"blocked">>, JSNull),
    HookOutput(DecisionBlock, <<>>, JSNum(0)),
    HookOutput(DecisionBlock, <<"blocked">>, JSNum(2)),
    HookOutput(<<"{", "decision:block", ",", "reason:other", "}">>, <<>>, JSNum(1)),
    HookOutput(<<"{", "decision:approve", ",", "reason:nope", "}">>, <<>>, JSNum(0)),
    HookOutput(ScenarioD, <<>>, JSNum(0)),
    HookOutput(<<"{", "continue:false", "}">>, <<>>, JSNum(0)),
    HookOutput(<<"{", "continue:false", ",", "stopReason:other", "}">>, <<>>, JSNum(1)),
    HookOutput(<<"{", "continue:true", ",", "stopReason:policy", "}">>, <<>>, JSNum(0)),
    HookOutput(<<"{", "context:ctx", "}">>, <<>>, JSNum(0)),
    HookOutput(<<"{", "context:ctx", ",", "suppressOutput:true", "}">>, <<>>, JSNum(0)),
    HookOutput(<<"{", "context:ctx", ",", "suppressOutput:false", "}">>, <<>>, JSNum(0)),
    HookOutput(<<"{", "context:ctx", "}">>, <<>>, JSNum(1)),
    HookOutput(<<"{", "suppressOutput:true", "}">>, <<>>, JSNum(0)),
    HookOutput(<<"{", "decision:block", "}">>, <<>>, JSNum(0)),
    HookOutcome(<<>>, <<>>, JSNull, TRUE, Undefined),
    HookOutcome(<<"x">>, <<"late">>, JSNull, TRUE, Undefined),
    HookOutcome(<<"x">>, <<>>, JSNum(0), TRUE, Undefined),
    HookOutcome(DecisionBlock, <<>>, JSNull, TRUE, Undefined),
    HookOutcome(<<>>, <<>>, JSNum(UV_ENOENT), FALSE, JSStr(<<"ENOENT">>)) }

\* the value with which the promise of a runner with that output resolves
ResultOf(o) ==
  MakeResult([NewChild(CmdDefault, ToolData, TRUE)
                EXCEPT !.stdout = o.stdout, !.stderr = o.stderr,
                       !.exitCode = o.exitCode, !.timedOut = o.timedOut,
                       !.error = o.error])

\* the loop over the results and the returned HookExecutionResult
Aggregate(outputs) ==
  /\ call = NoCall
  /\ LET results == [i \in DOMAIN outputs |-> ResultOf(outputs[i])]
         d == ProcessResults(InitialDecision, results)
     IN call' = [fn |-> "aggregate", in |-> outputs,
                 out |-> [ results |-> results,
                           shouldBlock |-> d.shouldBlock,
                           blockReason |-> d.blockReason,
                           shouldContinue |-> d.shouldContinue,
                           stopReason |-> d.stopReason,
                           contextToAdd |-> d.contextToAdd ],
                 err |-> ""]
  /\ UNCHANGED <<pc, args, child, ret, now>>

AggregateNext ==
  \E n \in 0..MaxResults : \E outputs \in [1..n -> HookOutputs] : Aggregate(outputs)

AggregateSpec == Init /\ [][AggregateNext]_vars

\* ------------------------------------------------------------------------
\* submitPrompt of useUserPromptSubmit: one call, from its options and the
\* behaviour of what it calls to its return value and the calls it made
\* ------------------------------------------------------------------------
\* the outcome of the UserPromptSubmit dispatch: not made (no executor,
\* configuration or session id), rejected, or a result
Dispatches ==
  { [kind |-> "none", shouldBlock |-> FALSE],
    [kind |-> "throws", shouldBlock |-> FALSE],
    [kind |-> "result", shouldBlock |-> FALSE],
    [kind |-> "result", shouldBlock |-> TRUE] }

SubmitOptions ==
  [ dispatch : Dispatches,
    onBeforeSubmit : {"absent", "true", "false", "throws"},
    addItem : {"ok", "throws"},
    onAfterSubmit : {"absent", "ok", "throws"},
    onError : {"absent", "present"} ]

\* the catch block of submitPrompt
\* the Error thrown by a step of an operation
ErrorOf(step) == [error |-> step]

SubmitFailed(o, log, history) ==
  [ returned |-> FALSE,
    log |-> IF o.onError = "present" THEN Append(log, "onError") ELSE log,
    history |-> history,
    errors |-> IF o.onError = "present" THEN << <<ErrorOf(log[Len(log)])>> >> ELSE <<>> ]

\* mutant of submitPrompt: a rejected dispatch is handled by the outer catch
submitPrompt_HookFailureFails(o, prompt) ==
  LET log1 == IF o.dispatch.kind # "none" THEN <<"executeHooks">> ELSE <<>>
      log2 == IF o.onBeforeSubmit # "absent" THEN Append(log1, "onBeforeSubmit") ELSE log1
      log3 == Append(log2, "addItem")
      log4 == IF o.onAfterSubmit # "absent" THEN Append(log3, "onAfterSubmit") ELSE log3
  IN IF o.dispatch.kind = "throws" THEN SubmitFailed(o, log1, <<>>)
     ELSE IF o.dispatch.kind = "result" /\ o.dispatch.shouldBlock
       THEN [returned |-> FALSE, log |-> log1, history |-> <<>>, errors |-> <<>>]
     ELSE IF o.onBeforeSubmit = "throws" THEN SubmitFailed(o, log2, <<>>)
     ELSE IF o.onBeforeSubmit = "false"
       THEN [returned |-> FALSE, log |-> log2, history |-> <<>>, errors |-> <<>>]
     ELSE IF o.addItem = "throws" THEN SubmitFailed(o, log3, <<>>)
     ELSE IF o.onAfterSubmit = "throws" THEN SubmitFailed(o, log4, <<prompt>>)
     ELSE [returned |-> TRUE, log |-> log4, history |-> <<prompt>>, errors |-> <<>>]

\* mutant of submitPrompt: the result of the dispatch is not looked at
submitPrompt_IgnoresBlock(o, prompt) ==
  LET log1 == IF o.dispatch.kind # "none" THEN <<"executeHooks">> ELSE <<>>
      log2 == IF o.onBeforeSubmit # "absent" THEN Append(log1, "onBeforeSubmit") ELSE log1
      log3 == Append(log2, "addItem")
      log4 == IF o.onAfterSubmit # "absent" THEN Append(log3, "onAfterSubmit") ELSE log3
  IN IF o.onBeforeSubmit = "throws" THEN SubmitFailed(o, log2, <<>>)
     ELSE IF o.onBeforeSubmit = "false"
       THEN [returned |-> FALSE, log |-> log2, history |-> <<>>, errors |-> <<>>]
     ELSE IF o.addItem = "throws" THEN SubmitFailed(o, log3, <<>>)
     ELSE IF o.onAfterSubmit = "throws" THEN SubmitFailed(o, log4, <<prompt>>)
     ELSE [returned |-> TRUE, log |-> log4, history |-> <<prompt>>, errors |-> <<>>]

submitPrompt(o, prompt) ==
  LET log1 == IF o.dispatch.kind # "none" THEN <<"executeHooks">> ELSE <<>>
      log2 == IF o.onBeforeSubmit # "absent" THEN Append(log1, "onBeforeSubmit") ELSE log1
      log3 == Append(log2, "addItem")
      log4 == IF o.onAfterSubmit # "absent" THEN Append(log3, "onAfterSubmit") ELSE log3
  IN IF o.dispatch.kind = "result" /\ o.dispatch.shouldBlock
       THEN [returned |-> FALSE, log |-> log1, history |-> <<>>, errors |-> <<>>]
     ELSE IF o.onBeforeSubmit = "throws" THEN SubmitFailed(o, log2, <<>>)
     ELSE IF o.onBeforeSubmit = "false"
       THEN [returned |-> FALSE, log |-> log2, history |-> <<>>, errors |-> <<>>]
     ELSE IF o.addItem = "throws" THEN SubmitFailed(o, log3, <<>>)
     ELSE IF o.onAfterSubmit = "throws" THEN SubmitFailed(o, log4, <<prompt>>)
     ELSE [returned |-> TRUE, log |-> log4, history |-> <<prompt>>, errors |-> <<>>]

SubmitPrompt(o) ==
  /\ call' = [fn |-> "submitPrompt", in |-> o, out |-> submitPrompt(o, "prompt"),
              err |-> ""]
  /\ UNCHANGED <<pc, args, child, ret, now>>

\* ------------------------------------------------------------------------
\* stopExecution of useStopExecution and stopSubagent of useSubagentStop:
\* one call, from its options and the behaviour of what it calls to its
\* return value, the calls it made, the items it added to the history, the
\* actions it dispatched to the session and the arguments given to onError
\* ------------------------------------------------------------------------
\* the session the hooks are rendered in offers addItem and dispatch
StopOptions ==
  [ onBeforeStop : {"absent", "true", "false", "throws"},
    addItem : {"ok", "throws"},
    dispatch : {"ok", "throws"},
    onAfterStop : {"absent", "ok", "throws"},
    onError : {"absent", "present"} ]

SubagentIds == {"agent-1", "agent-2"}

SystemMessage(text) == [type |-> "system", text |-> text]

\* the catch block of stopExecution
StopExecutionFailed(o, log, history) ==
  [ returned |-> FALSE,
    log |-> IF o.onError = "present" THEN Append(log, "onError") ELSE log,
    history |-> history,
    dispatched |-> <<>>,
    errors |-> IF o.onError = "present" THEN << <<ErrorOf(log[Len(log)])>> >> ELSE <<>> ]

\* mutant of stopExecution: the answer of onBeforeStop is not looked at
stopExecution_IgnoresVeto(o) ==
  LET item == SystemMessage(<<"Execution stopped by user">>)
      log1 == IF o.onBeforeStop # "absent" THEN <<"onBeforeStop">> ELSE <<>>
      log2 == Append(log1, "addItem")
      log3 == IF o.onAfterStop # "absent" THEN Append(log2, "onAfterStop") ELSE log2
  IN IF o.onBeforeStop = "throws" THEN StopExecutionFailed(o, log1, <<>>)
     ELSE IF o.addItem = "throws" THEN StopExecutionFailed(o, log2, <<>>)
     ELSE IF o.onAfterStop = "throws" THEN StopExecutionFailed(o, log3, <<item>>)
     ELSE [returned |-> TRUE, log |-> log3, history |-> <<item>>,
           dispatched |-> <<>>, errors |-> <<>>]

stopExecution(o) ==
  LET item == SystemMessage(<<"Execution stopped by user">>)
      log1 == IF o.onBeforeStop # "absent" THEN <<"onBeforeStop">> ELSE <<>>
      log2 == Append(log1, "addItem")
      log3 == IF o.onAfterStop # "absent" THEN Append(log2, "onAfterStop") ELSE log2
  IN IF o.onBeforeStop = "throws" THEN StopExecutionFailed(o, log1, <<>>)
     ELSE IF o.onBeforeStop = "false"
       THEN [returned |-> FALSE, log |-> log1, history |-> <<>>,
             dispatched |-> <<>>, errors |-> <<>>]
     ELSE IF o.addItem = "throws" THEN StopExecutionFailed(o, log2, <<>>)
     ELSE IF o.onAfterStop = "throws" THEN StopExecutionFailed(o, log3, <<item>>)
     ELSE [returned |-> TRUE, log |-> log3, history |-> <<item>>,
           dispatched |-> <<>>, errors |-> <<>>]

\* the catch block of stopSubagent
StopSubagentFailed(o, subagentId, log, history) ==
  [ returned |-> FALSE,
    log |-> IF o.onError = "present" THEN Append(log, "onError") ELSE log,
    history |-> history,
    dispatched |-> <<>>,
    errors |-> IF o.onError = "present"
                 THEN << <<ErrorOf(log[Len(log)]), subagentId>> >> ELSE <<>> ]

stopSubagent(o, subagentId) ==
  LET item == SystemMessage(<<"Subagent ", subagentId, " stopped by user">>)
      log1 == IF o.onBeforeStop # "absent" THEN <<"onBeforeStop">> ELSE <<>>
      log2 == Append(log1, "addItem")
      log3 == IF o.onAfterStop # "absent" THEN Append(log2, "onAfterStop") ELSE log2
  IN IF o.onBeforeStop = "throws" THEN StopSubagentFailed(o, subagentId, log1, <<>>)
     ELSE IF o.onBeforeStop = "false"
       THEN [returned |-> FALSE, log |-> log1, history |-> <<>>,
             dispatched |-> <<>>, errors |-> <<>>]
     ELSE IF o.addItem = "throws" THEN StopSubagentFailed(o, subagentId, log2, <<>>)
     ELSE IF o.onAfterStop = "throws"
       THEN StopSubagentFailed(o, subagentId, log3, <<item>>)
     ELSE [returned |-> TRUE, log |-> log3, history |-> <<item>>,
           dispatched |-> <<>>, errors |-> <<>>]

StopExecution(o) ==
  /\ call' = [fn |-> "stopExecution", in |-> o, out |-> stopExecution(o), err |-> ""]
  /\ UNCHANGED <<pc, args, child, ret, now>>

StopSubagent(o, subagentId) ==
  /\ call' = [fn |-> "stopSubagent", in |-> o,
              id |-> subagentId, out |-> stopSubagent(o, subagentId), err |-> ""]
  /\ UNCHANGED <<pc, args, child, ret, now>>

SubmitNext ==
  \/ \E o \in SubmitOptions : SubmitPrompt(o)
  \/ \E o \in StopOptions : StopExecution(o)
  \/ \E o \in StopOptions, subagentId \in SubagentIds : StopSubagent(o, subagentId)

SubmitSpec == Init /\ [][SubmitNext]_vars

\* ------------------------------------------------------------------------
\* executeToolCall of nonInteractiveToolExecutor: one call, from the
\* request, the registry and the behaviour of what it calls to the response
\* it returns, the tool_call log entries it emits, the calls it made and
\* the number of times the tool's execute ran
\* ------------------------------------------------------------------------
\* what toolRegistry.executeToolWithHooks does with a call: it is not
\* offered by the registry, or it runs the PreToolUse hooks, executes the
\* tool if they did not block, runs the PostToolUse hooks, and returns a
\* ToolResult or throws
HookAwareOutcomes ==
  { h \in [ offered : BOOLEAN, blocked : BOOLEAN, executes : BOOLEAN, throws : BOOLEAN ] :
      /\ ~h.offered => ~h.blocked /\ ~h.executes /\ ~h.throws
      /\ h.blocked => ~h.executes
      /\ h.offered /\ ~h.blocked /\ ~h.executes => h.throws }

\* what tool.execute does: it returns a ToolResult, throws an Error, or
\* throws a value that is not an Error
ExecuteOutcomes == {"returns", "throwsError", "throwsString"}

ToolCallRequests == [ callId : {"call-1", "call-2"}, name : {"Bash", "Edit"} ]

ToolCallOptions ==
  [ request : ToolCallRequests,
    registered : BOOLEAN,
    hookAware : HookAwareOutcomes,
    execute : ExecuteOutcomes ]

\* the ToolResult of an execution path
ToolResultOf(path) ==
  [ llmContent |-> <<"output of ", path>>, returnDisplay |-> <<"display of ", path>> ]

\* e instanceof Error ? e : new Error(String(e)), then error.message
MessageOf(outcome) ==
  IF outcome = "throwsError" THEN <<"execute failed">> ELSE <<"thrown string">>

ErrorResponse(request, message) ==
  [ callId |-> request.callId,
    responseParts |->
      [ functionResponse |->
          [ id |-> request.callId, name |-> request.name,
            response |-> [ error |-> message ] ] ],
    resultDisplay |-> message,
    error |-> JSObj([message |-> message]) ]

convertToFunctionResponse(name, callId, llmContent) ==
  [ functionResponse |->
      [ id |-> callId, name |-> name, response |-> [ output |-> llmContent ] ] ]

SuccessResponse(request, toolResult) ==
  [ callId |-> request.callId,
    responseParts |->
      convertToFunctionResponse(request.name, request.callId, toolResult.llmContent),
    resultDisplay |-> toolResult.returnDisplay,
    error |-> Undefined ]

ToolCallLog(request, success, error) ==
  [ event |-> "tool_call", function_name |-> request.name, success |-> success,
    error |-> error ]

ToolCallSucceeded(o, calls, executed, path) ==
  [ response |-> SuccessResponse(o.request, ToolResultOf(path)),
    logs |-> <<ToolCallLog(o.request, TRUE, Undefined)>>,
    calls |-> calls,
    executed |-> executed,
    thrown |-> Undefined ]

\* the catch block of executeToolCall, and its tool-not-found branch
ToolCallFailed(o, calls, executed, message) ==
  [ response |-> ErrorResponse(o.request, message),
    logs |-> <<ToolCallLog(o.request, FALSE, JSStr(message))>>,
    calls |-> calls,
    executed |-> executed,
    thrown |-> Undefined ]

\* toolResult = await tool.execute(args, effectiveAbortSignal) and what follows
DirectExecution(o, calls, executed) ==
  IF o.execute = "returns"
    THEN ToolCallSucceeded(o, Append(calls, "tool.execute"), executed + 1, "tool.execute")
    ELSE ToolCallFailed(o, Append(calls, "tool.execute"), executed + 1,
                        MessageOf(o.execute))

executeToolCall(o) ==
  LET h == o.hookAware
      ran == IF h.executes THEN 1 ELSE 0
  IN IF ~o.registered
       THEN ToolCallFailed(o, <<>>, 0,
              <<"Tool \"", o.request.name, "\" not found in registry.">>)
     ELSE IF ~h.offered THEN DirectExecution(o, <<>>, 0)
     ELSE IF ~h.throws
       THEN ToolCallSucceeded(o, <<"executeToolWithHooks">>, ran, "executeToolWithHooks")
     ELSE DirectExecution(o, <<"executeToolWithHooks">>, ran)

ExecuteToolCall(o) ==
  /\ call' = [fn |-> "executeToolCall", in |-> o, out |-> executeToolCall(o), err |-> ""]
  /\ UNCHANGED <<pc, args, child, ret, now>>

ToolNext == \E o \in ToolCallOptions : ExecuteToolCall(o)

ToolSpec == Init /\ [][ToolNext]_vars

\* ========================================================================
\* Properties
\* ========================================================================
Results == ret.results

\* a result that blocks by its exit code
BlocksByExit(r) == r.exitCode = 2 /\ r.stderr # <<>>

\* a result that blocks by its structured decision
BlocksByDecision(r) ==
  r.jsonOutput.t = "object" /\ Get(r.jsonOutput, "decision") = JSStr(<<"block">>)

\* C1, as stated: whenever some result of a returned dispatch has exit code 2
\* and a non-empty stderr, shouldBlock is true and blockReason is that stderr,
\* whatever the other results are.
C1_BlockReasonIsStderr ==
  pc = "returned" =>
    \A i \in 1..Len(Results) :
      BlocksByExit(Results[i]) =>
        ret.shouldBlock /\ ret.blockReason = JSStr(Results[i].stderr)

\* C1, amended: such a result always makes shouldBlock true, and blockReason
\* is its stderr unless a blocking signal that comes later in request order (a
\* structured 'block' decision of the same or of a later result, or a later
\* result with exit code 2 and non-empty stderr) overwrites it.
C1_BlockReasonUnlessOverwritten ==
  pc = "returned" =>
    \A i \in 1..Len(Results) :
      BlocksByExit(Results[i]) =>
        /\ ret.shouldBlock
        /\ ( /\ ~BlocksByDecision(Results[i])
             /\ \A j \in (i + 1)..Len(Results) :
                  ~BlocksByExit(Results[j]) /\ ~BlocksByDecision(Results[j]) )
           => ret.blockReason = JSStr(Results[i].stderr)

\* C1 witness: the first of two results blocks by exit code, the second one
\* succeeded with plain output, and the reason is the first one's stderr
C1_Witness ==
  /\ pc = "returned"
  /\ Len(Results) = 2
  /\ BlocksByExit(Results[1])
  /\ Results[2].exitCode = 0 /\ Results[2].stdout = <<"x">>
  /\ ret.shouldBlock /\ ret.blockReason = JSStr(<<"blocked">>)

\* no matcher of the event selects the match key (or the event is absent)
NothingSelected ==
  \/ args.eventName \notin DOMAIN args.hookConfig
  \/ \A k \in 1..Len(args.hookConfig[args.eventName]) :
       ~matchesPattern(args.hookConfig[args.eventName][k], args.matcher)

C3_FullJoinInRequestOrder ==
  pc = "returned" =>
    LET reqs == Requests(args.eventName, args.hookConfig, args.matcher)
    IN /\ Len(Results) = Len(reqs)
       /\ \A i \in 1..Len(reqs) :
            /\ child[i].cmd = reqs[i]
            /\ child[i].phase = "closed"
            /\ Results[i] = child[i].result
            /\ Results[i].stdout = Trim(child[i].sentOut)
            /\ Results[i].stderr = Trim(child[i].sentErr)

\* C3 witness: the second request completed first and the two results differ
C3_Witness ==
  /\ pc = "returned"
  /\ Len(Results) = 2
  /\ child[2].closeOrd = 1
  /\ Results[1] # Results[2]

\* the requests of the call in progress
Reqs == Requests(args.eventName, args.hookConfig, args.matcher)

\* the runners for which a process was spawned
Spawned == {i \in Children : child[i].phase # "rejected"}

\* the delay for which the timeout timer of runner i was armed
Delay(i) == TimerDelay(TimeoutMs(child[i].cmd))

\* the calls of child.kill of runner i with a given signal
KillsOf(i, sig) == {k \in 1..Len(child[i].kills) : child[i].kills[k].sig = sig}

\* C4, as stated: every dispatch eventually returns a DispatchResult, because
\* every launched runner, also one that runs past its timeout, eventually
\* completes.
C4_EveryDispatchReturns == (pc = "joining") ~> (pc = "returned")

\* C5, as stated: when the timeout timer expires SIGTERM is sent and a grace
\* timer of 5000 ms is armed; a process that has still not exited when the
\* grace timer expires is sent SIGKILL.
C5_EscalatesToSigkill ==
  \A i \in Children :
    child[i].timedOut =>
      /\ child[i].kills # <<>>
      /\ child[i].kills[1].sig = "SIGTERM"
      /\ child[i].graceAt \in {NoTimer, child[i].kills[1].at + 5000}
      /\ (child[i].graceAt = NoTimer /\ child[i].phase = "running") =>
           \E k \in KillsOf(i, "SIGKILL") : child[i].kills[k].sent

\* C6: within one execution SIGKILL is sent only after SIGTERM and no earlier
\* than 5000 ms after it; SIGTERM is sent at most once and never before the
\* timeout timer has expired.
C6_SignalOrdering ==
  \A i \in Children :
    /\ \A k \in KillsOf(i, "SIGKILL") :
         \E j \in KillsOf(i, "SIGTERM") :
           j < k /\ child[i].kills[k].at >= child[i].kills[j].at + 5000
    /\ Cardinality(KillsOf(i, "SIGTERM")) <= 1
    /\ \A k \in KillsOf(i, "SIGTERM") :
         child[i].timedOut /\ child[i].kills[k].at >= Delay(i)

\* C6 witness: kill('SIGKILL') was called for some execution
C6_Witness == \E i \in Children : KillsOf(i, "SIGKILL") # {}

\* C7, as stated: once the process has closed, no timer of its execution is
\* armed and no kill is issued for it any more.
C7_TimersCancelledOnClose ==
  [][ \A i \in DOMAIN child \cap DOMAIN child' :
        child'[i].phase = "closed" =>
          /\ child'[i].timeoutAt = NoTimer
          /\ child'[i].graceAt = NoTimer
          /\ child'[i].kills = child[i].kills ]_vars

\* C8: a result has timedOut = true exactly when the timeout callback ran
\* before 'close'; a command that is still not closed after its timeout has
\* timedOut set, and one that closed before the timer expired has timedOut =
\* false, was never sent a signal and has no timer left that could send one.
C8_TimedOutIffTimerExpired ==
  \A i \in Spawned :
    /\ child[i].timedOut <=> KillsOf(i, "SIGTERM") # {}
    /\ (child[i].phase # "closed" /\ now > Delay(i)) => child[i].timedOut
    /\ child[i].phase = "closed" =>
         /\ child[i].result.timedOut <=> KillsOf(i, "SIGTERM") # {}
         /\ now < Delay(i) => ~child[i].result.timedOut
         /\ ~child[i].result.timedOut =>
              /\ child[i].kills = <<>>
              /\ child[i].timeoutAt = NoTimer
              /\ child[i].graceAt = NoTimer

\* C8 witness: of two closed executions one timed out and the other closed
\* before its timer expired
C8_Witness ==
  \E i, j \in Spawned :
    /\ child[i].phase = "closed" /\ child[i].result.timedOut
    /\ child[j].phase = "closed" /\ ~child[j].result.timedOut
    /\ now > Delay(j)

\* C9: all selected commands are spawned before executeHooks waits; every
\* runner has its own timer, which fires after its own delay whatever the
\* siblings do, and its own buffers, which hold only what its own process
\* wrote, and so does its result.
C9_SiblingsIndependent ==
  pc # "idle" =>
    LET reqs == Reqs
    IN /\ Len(child) = Len(reqs)
       /\ \A i \in Children :
            /\ child[i].cmd = reqs[i]
            /\ ~SpawnThrows(reqs[i]) =>
                 /\ i \in Spawned
                 /\ Len(child[i].stdin) = 2
            /\ child[i].stdout = child[i].sentOut
            /\ child[i].stderr = child[i].sentErr
            /\ child[i].result.set =>
                 /\ child[i].result.stdout = Trim(child[i].sentOut)
                 /\ child[i].result.stderr = Trim(child[i].sentErr)
            /\ child[i].timeoutAt \in {NoTimer, Delay(i)}
            /\ \A k \in KillsOf(i, "SIGTERM") : child[i].kills[k].at = Delay(i)

\* C9 witness: one command hangs after ignoring SIGTERM, past its grace
\* period, while its sibling wrote output, timed out at its own time and
\* closed
C9_Witness ==
  \E i, j \in Spawned :
    /\ i # j
    /\ child[i].phase = "running" /\ child[i].timedOut
    /\ child[i].graceAt = NoTimer /\ ~child[i].termPending
    /\ child[j].phase = "closed" /\ child[j].result.stdout # <<>>
    /\ child[i].stdout # child[j].stdout
    /\ child[j].result.timedOut /\ Delay(j) # Delay(i)

\* C10, as stated: a dispatch that selects a command the validator rejects
\* fails before any process of the dispatch is spawned.
C10_ValidationPrecedesExecution ==
  (pc # "idle" /\ \E i \in 1..Len(Reqs) : ~validateHookSecurity(Reqs[i])) =>
    /\ pc = "thrown"
    /\ Spawned = {}

\* ------------------------------------------------------------------------
\* C11: validateHookSecurity throws exactly when the command is not a
\* non-empty string, or a timeout is present and is not a number >= 0; it
\* accepts a timeout of 0 and an absent timeout and refuses '', null, a
\* non-string command and a timeout of -1.
\* ------------------------------------------------------------------------
IsNonEmptyString(x) == x.t = "string" /\ Len(x.v) > 0
IsNumberAtLeastZero(x) == x.t = "number" /\ x.v >= 0

ShellMeta == {";", "|", "BACKTICK"}
HasShellMeta(x) == x.t = "string" /\ \E k \in DOMAIN x.v : x.v[k] \in ShellMeta

C12_RejectsShellMetacharacters ==
  call.fn = "validateHookSecurity" /\ HasShellMeta(call.in.command)
    => call.err = "Invalid command format"

\* ------------------------------------------------------------------------
\* C13: validatePath throws 'Path traversal is not allowed' for exactly the
\* paths that, after normalization, still contain a '..' segment (a path
\* that normalizes to '..' alone or ends in '..' included), and does not
\* throw for a path without such a segment (a segment that merely ends in
\* dots included).
\* ------------------------------------------------------------------------
HasParentSegment(path) == \E k \in DOMAIN Split(path) : Split(path)[k] = DotDot

C13_ThrowsIffParentSegmentRemains ==
  call.fn = "validatePath" /\ call.in.t = "string" =>
    (call.err = "Path traversal is not allowed"
       <=> HasParentSegment(normalize(call.in.v)))

\* ------------------------------------------------------------------------
\* C14: the matcher fails closed: when the dispatch supplies no tool name, a
\* matcher that has a pattern is never selected, so none of its commands
\* runs; only the commands of the matchers without a pattern do.
\* ------------------------------------------------------------------------
HasPattern(m) == m.matcher.t = "string" /\ Len(m.matcher.v) > 0
CommandsOf(runners) == [i \in DOMAIN runners |-> runners[i].cmd]

C14_MatcherFailsClosed ==
  pc # "idle" /\ args.matcher = Undefined =>
    CommandsOf(child) =
      FlatHooks(SelectSeq(MatchersOf(args.hookConfig, args.eventName),
                          LAMBDA m : ~HasPattern(m)))

C14_Witness ==
  /\ pc = "returned"
  /\ args.matcher = Undefined
  /\ args.hookConfig = CfgTwoMatchers
  /\ CommandsOf(child) = <<CmdNegative>>
  /\ Len(Results) = 1

\* ------------------------------------------------------------------------
\* C15: matchesPattern agrees with the selection table: an absent or empty
\* pattern selects for every tool name and for none; 'Edit|Write' selects
\* 'Edit' and 'Write' but not 'Bash'; 'Bash' selects 'Bash' but not 'Edit';
\* a pattern selects a tool name exactly when, as a regular expression, it
\* matches the name (for a pattern of plain characters: when the name
\* contains it).
\* ------------------------------------------------------------------------
RegExpMeta == {".", "*", "|", "(", ")"}
IsPlain(p) == \A k \in DOMAIN p : p[k] \notin RegExpMeta

C15_SelectionTable ==
  call.fn = "matchesPattern" =>
    LET pattern == call.in.matcher
        toolName == call.in.toolName
        Row(p, t, selected) ==
          pattern = JSStr(p) /\ toolName = JSStr(t) => call.out = selected
    IN /\ pattern \in {Undefined, JSStr(<<>>)} => call.out
       /\ Row(EditOrWrite, Edit, TRUE)
       /\ Row(EditOrWrite, Write, TRUE)
       /\ Row(EditOrWrite, Bash, FALSE)
       /\ Row(Bash, Bash, TRUE)
       /\ Row(Bash, Edit, FALSE)
       /\ Row(DotStarTool, MyTool, TRUE)
       /\ Row(EditWriteMultiEdit, MultiEdit, TRUE)
       /\ Row(EditWriteMultiEdit, Read, FALSE)
       /\ Truthy(pattern) /\ Truthy(toolName) =>
            /\ IsPlain(pattern.v) => (call.out <=> Includes(toolName.v, pattern.v))
            /\ pattern.v = EditOrWrite =>
                 (call.out <=> \/ Includes(toolName.v, Edit)
                               \/ Includes(toolName.v, Write))
            /\ pattern.v = <<".", "*">> => call.out

C15_Witness ==
  /\ call.fn = "matchesPattern"
  /\ call.in = [matcher |-> JSStr(EditOrWrite), toolName |-> JSStr(Write)]
  /\ call.out

\* ------------------------------------------------------------------------
\* C16: a pattern that does not compile never makes the dispatch throw: its
\* matcher is selected exactly when the pattern string equals the tool name,
\* and the other matchers are selected as usual.
\* ------------------------------------------------------------------------
NonCompiling == {Star, <<"(">>, Bash \o <<"(">>}

C16_InvalidPatternFallsBackToEquality ==
  pc # "idle" /\ args.hookConfig = CfgStar =>
    /\ pc # "thrown"
    /\ args.matcher = JSStr(Star) => CommandsOf(child) = <<CmdT1>>
    /\ args.matcher = JSStr(Bash) => CommandsOf(child) = <<CmdDefault>>
    /\ \A k \in DOMAIN args.hookConfig.PreToolUse :
         LET m == args.hookConfig.PreToolUse[k]
         IN m.matcher.v \in NonCompiling =>
              ((\E i \in Children : child[i].cmd \in {m.hooks[j] : j \in DOMAIN m.hooks})
                 <=> m.matcher = args.matcher)

C16_Witness ==
  /\ pc = "returned"
  /\ args.hookConfig = CfgStar
  /\ args.matcher = JSStr(Star)
  /\ CommandsOf(child) = <<CmdT1>>

\* ------------------------------------------------------------------------
\* C17: within one call of executeHooks every command of every selected
\* matcher is given to spawn exactly once, in order and without retry, and no
\* command of an unselected matcher is; the call returns one result per
\* command.  With matchers 'Bash' and 'Edit' and the tool 'Bash' only the
\* command of 'Bash' runs and exactly one result is returned.
\* ------------------------------------------------------------------------
SelectedCommands ==
  FlatHooks(SelectSeq(MatchersOf(args.hookConfig, args.eventName),
                      LAMBDA m : matchesPattern(m, args.matcher)))
SpawnsOf(i) == {k \in DOMAIN child[i].stdin : child[i].stdin[k].op = "write"}

C17_EachSelectedCommandSpawnedOnce ==
  pc # "idle" =>
    /\ CommandsOf(child) = SelectedCommands
    /\ \A i \in Spawned : Cardinality(SpawnsOf(i)) = 1
    /\ pc = "returned" => Len(Results) = Len(SelectedCommands)
    /\ args.hookConfig = CfgBashEdit /\ args.eventName = "PreToolUse" =>
         /\ args.matcher = JSStr(Bash) => CommandsOf(child) = <<CmdT1>>
         /\ args.matcher = JSStr(Edit) => CommandsOf(child) = <<CmdDefault>>
         /\ args.matcher = JSStr(Read) => CommandsOf(child) = <<>>

C17_Witness ==
  /\ pc = "returned"
  /\ args.hookConfig = CfgBashEdit
  /\ args.matcher = JSStr(Bash)
  /\ CommandsOf(child) = <<CmdT1>>
  /\ Len(Results) = 1

\* ------------------------------------------------------------------------
\* C18, as stated: for every command with a timeout t >= 0 the timer is
\* armed for t * 1000 ms (setTimeout runs a delay of 0 after 1 ms), and for a
\* command without timeout for 60 * 1000 ms; no other value of t is replaced
\* by the default.
\* ------------------------------------------------------------------------
C18_TimerArmedForConfiguredTimeout ==
  \A i \in Spawned :
    LET t == child[i].cmd.timeout
        expected == IF t = Undefined THEN DEFAULT_TIMEOUT * 1000 ELSE t.v * 1000
    IN t = Undefined \/ (t.t = "number" /\ t.v >= 0) =>
         /\ child[i].timeoutAt # NoTimer =>
              child[i].timeoutAt \in {expected, IF expected < 1 THEN 1 ELSE expected}
         /\ \A k \in KillsOf(i, "SIGTERM") :
              child[i].kills[k].at \in {expected, IF expected < 1 THEN 1 ELSE expected}

\* ------------------------------------------------------------------------
\* C19: every HookResult has success = (exitCode = 0), exitCode = -1 when the
\* process closed without an exit code, and as stdout and stderr the trimmed
\* concatenation, in arrival order, of what was received before close.
\* ------------------------------------------------------------------------
\* r is s without its leading and trailing white space
IsTrimOf(r, s) ==
  /\ r # <<>> => r[1] \notin WhiteSpace /\ r[Len(r)] \notin WhiteSpace
  /\ \E a \in 0..(Len(s) - Len(r)) :
       /\ SubSeq(s, a + 1, a + Len(r)) = r
       /\ \A k \in (1..a) \cup ((a + Len(r) + 1)..Len(s)) : s[k] \in WhiteSpace

C20_JsonOutputIffObject ==
  call.fn = "close" =>
    LET text == Trim(call.in.stdout)
        parsed == JsonParse(text)
        r == call.out
    IN /\ r.jsonOutput # Undefined <=> (parsed.ok /\ parsed.val.t = "object")
       /\ r.stdout = text
       /\ r.success <=> call.in.exitCode = JSNum(0)
       /\ r.exitCode = IF call.in.exitCode = JSNull THEN -1 ELSE call.in.exitCode.v

\* ------------------------------------------------------------------------
\* C21, as stated: when the OS fails to start the process, executeCommand
\* still resolves a HookResult with error set, success = false and
\* exitCode = -1; the siblings are not interrupted and executeHooks returns
\* a result that contains it.
\* ------------------------------------------------------------------------
SpawnFailed(i) == child[i].error # Undefined

C21_SpawnFailureCaptured ==
  /\ pc # "thrown" => \A i \in Children : child[i].phase # "rejected"
  /\ \A i \in Children :
       SpawnFailed(i) /\ child[i].result.set =>
         /\ child[i].result.error = child[i].error
         /\ ~child[i].result.success
         /\ child[i].result.exitCode = -1
  /\ pc = "returned" =>
       \A i \in Children : SpawnFailed(i) => Results[i] = child[i].result

\* ------------------------------------------------------------------------
\* C22: for every spawned hook process the JSON serialization of the full
\* event payload is written to stdin exactly once and stdin is then closed,
\* right after spawn and before any output or exit is handled; nothing is
\* written after the close.
\* ------------------------------------------------------------------------
C22_StdinWrittenOnceThenClosed ==
  \A i \in Spawned :
    LET log == child[i].stdin
    IN /\ Len(log) = 2
       /\ log[1].op = "write"
       /\ log[1].data.json = {<<k, args.eventData[k]>> : k \in DOMAIN args.eventData}
       /\ log[2].op = "end"
       /\ \A k \in DOMAIN log : log[k].op = "write" => k < 2

C22_Witness ==
  \E i \in Spawned :
    /\ child[i].phase = "closed"
    /\ child[i].nOut > 0
    /\ args.eventData = ToolData
    /\ <<"cwd", "/app">> \in child[i].stdin[1].data.json
    /\ child[i].stdin[2].op = "end"

\* ------------------------------------------------------------------------
\* C28, as stated: executeHooks rejects when the event payload is
\* structurally invalid (session_id, transcript_path or cwd missing, or an
\* unknown hook_event_name).
\* ------------------------------------------------------------------------
HookEventNames ==
  {"PreToolUse", "PostToolUse", "Notification", "UserPromptSubmit", "Stop",
   "SubagentStop", "PreCompact"}
ValidPayload(data) ==
  /\ {"session_id", "transcript_path", "cwd", "hook_event_name"} \subseteq DOMAIN data
  /\ data.hook_event_name \in HookEventNames

C28_InvalidPayloadRejected ==
  pc # "idle" /\ ~ValidPayload(args.eventData) => pc = "thrown"

\* ------------------------------------------------------------------------
\* C29, as stated: the environment with which a hook process is spawned
\* never contains sensitive variables of the host such as AWS_SECRET_KEY,
\* DB_PASSWORD or API_TOKEN.
\* ------------------------------------------------------------------------
SensitiveVars == {"AWS_SECRET_KEY", "DB_PASSWORD", "API_TOKEN"}

C29_NoSensitiveEnvironment ==
  \A i \in Spawned : child[i].env \cap SensitiveVars = {}

\* ------------------------------------------------------------------------
\* The decision policy, stated over a list of results in request order
\* ------------------------------------------------------------------------
BlocksByExitCode(r) == r.exitCode = 2 /\ r.stderr # <<>>
BlocksByStructuredDecision(r) == Get(r.jsonOutput, "decision") = JSStr(<<"block">>)

\* the reasons of the blocking signals of one result: stderr, then reason
BlockSignals(r) ==
  (IF BlocksByExitCode(r) THEN <<JSStr(r.stderr)>> ELSE <<>>)
    \o (IF BlocksByStructuredDecision(r) THEN <<Get(r.jsonOutput, "reason")>> ELSE <<>>)

RECURSIVE AllBlockSignals(_)
AllBlockSignals(results) ==
  IF results = <<>> THEN <<>>
  ELSE BlockSignals(Head(results)) \o AllBlockSignals(Tail(results))

StopsAt(results) ==
  {i \in DOMAIN results : Get(results[i].jsonOutput, "continue") = JSBool(FALSE)}

\* what one result adds to contextToAdd
Contribution(r) ==
  IF r.exitCode # 0 THEN <<>>
  ELSE (IF Get(r.jsonOutput, "context") \notin {Undefined, JSStr(<<>>)}
          THEN <<Get(r.jsonOutput, "context")>> ELSE <<>>)
         \o (IF r.stdout # <<>> /\ Get(r.jsonOutput, "suppressOutput") # JSBool(TRUE)
               THEN <<JSStr(r.stdout)>> ELSE <<>>)

RECURSIVE AllContributions(_)
AllContributions(results) ==
  IF results = <<>> THEN <<>>
  ELSE Contribution(Head(results)) \o AllContributions(Tail(results))

LastBlockReason(results) ==
  LET signals == AllBlockSignals(results)
  IN IF signals = <<>> THEN Undefined ELSE signals[Len(signals)]

LastStopReason(results) ==
  LET stops == StopsAt(results)
  IN IF stops = {} THEN Undefined
     ELSE Get(results[CHOOSE i \in stops : \A j \in stops : j <= i].jsonOutput,
              "stopReason")

\* ------------------------------------------------------------------------
\* C23: last blocking result wins: blockReason is the reason of the last
\* blocking signal in request order, where a result blocks by exit code 2
\* with non-empty stderr (reason: stderr) or by the structured decision
\* 'block' (reason: its reason field), the structured reason coming after the
\* stderr of the same result.
\* ------------------------------------------------------------------------
C23_LastBlockingResultWins ==
  call.fn = "aggregate" =>
    /\ call.out.shouldBlock <=> AllBlockSignals(call.out.results) # <<>>
    /\ call.out.blockReason = LastBlockReason(call.out.results)

C23_Witness ==
  /\ call.fn = "aggregate"
  /\ call.in = << HookOutput(DecisionBlock, <<"blocked">>, JSNum(2)),
                  HookOutput(<<>>, <<"blocked">>, JSNum(2)) >>
  /\ AllBlockSignals(call.out.results)
       = <<JSStr(<<"blocked">>), JSStr(<<"nope">>), JSStr(<<"blocked">>)>>
  /\ call.out.blockReason = JSStr(<<"blocked">>)

\* ------------------------------------------------------------------------
\* C24: shouldContinue is false exactly when the structured output of some
\* result has continue strictly equal to false, and stopReason is then the
\* stopReason field of the last such result; the hook of scenario D gives
\* shouldBlock, blockReason 'nope', shouldContinue false, stopReason 'policy'.
\* ------------------------------------------------------------------------
C24_ContinueFalseStops ==
  call.fn = "aggregate" =>
    /\ ~call.out.shouldContinue <=> StopsAt(call.out.results) # {}
    /\ call.out.stopReason = LastStopReason(call.out.results)
    /\ call.in = <<HookOutput(ScenarioD, <<>>, JSNum(0))>> =>
         /\ call.out.shouldBlock
         /\ call.out.blockReason = JSStr(<<"nope">>)
         /\ ~call.out.shouldContinue
         /\ call.out.stopReason = JSStr(<<"policy">>)

C24_Witness ==
  /\ call.fn = "aggregate"
  /\ call.in = << HookOutput(ScenarioD, <<>>, JSNum(0)),
                  HookOutput(<<"{", "continue:false", ",", "stopReason:other", "}">>,
                             <<>>, JSNum(1)) >>
  /\ ~call.out.shouldContinue
  /\ call.out.stopReason = JSStr(<<"other">>)

\* ------------------------------------------------------------------------
\* C25, as stated: a command that exits with a code other than 0 and 2 has
\* success = false and does not set shouldBlock, so that a dispatch whose
\* only results have such exit codes returns shouldBlock = false; exit code
\* 2 with empty stderr does not block by exit code.
\* ------------------------------------------------------------------------
OtherExit(r) == r.exitCode \notin {0, 2}

C25_OtherExitCodesNeverBlock ==
  call.fn = "aggregate" =>
    LET results == call.out.results
    IN /\ \A i \in DOMAIN results : OtherExit(results[i]) => ~results[i].success
       /\ (\A i \in DOMAIN results : OtherExit(results[i])) => ~call.out.shouldBlock
       /\ (\A i \in DOMAIN results :
             /\ results[i].exitCode = 2 /\ results[i].stderr = <<>>
             /\ ~BlocksByStructuredDecision(results[i])) => ~call.out.shouldBlock

\* C25, amended: such a command does not block by its exit code; the dispatch
\* blocks only if some result exits 2 with non-empty stderr or carries the
\* structured decision 'block', which counts whatever the exit code.
C25_OtherExitCodesBlockOnlyByDecision ==
  call.fn = "aggregate" =>
    LET results == call.out.results
    IN /\ \A i \in DOMAIN results : OtherExit(results[i]) => ~results[i].success
       /\ call.out.shouldBlock =>
            \E i \in DOMAIN results :
              \/ results[i].exitCode = 2 /\ results[i].stderr # <<>>
              \/ BlocksByStructuredDecision(results[i])
       /\ \A i \in DOMAIN results :
            BlocksByStructuredDecision(results[i]) => call.out.shouldBlock

C25_Witness ==
  /\ call.fn = "aggregate"
  /\ call.in = << HookOutput(<<"x">>, <<"blocked">>, JSNum(1)),
                  HookOutput(<<"x">>, <<" ">>, JSNum(2)) >>
  /\ ~call.out.results[1].success
  /\ ~call.out.shouldBlock

\* ------------------------------------------------------------------------
\* C26: contextToAdd holds, in request order, the contributions of the
\* results with exit code 0 only: the structured context when present, then
\* the raw stdout when non-empty and suppressOutput is not true.
\* ------------------------------------------------------------------------
C26_ContextFromSuccessfulResults ==
  call.fn = "aggregate" =>
    /\ call.out.contextToAdd = AllContributions(call.out.results)
    /\ \A i \in DOMAIN call.out.results :
         LET r == call.out.results[i]
         IN /\ r.exitCode # 0 => Contribution(r) = <<>>
            /\ Get(r.jsonOutput, "suppressOutput") = JSBool(TRUE) =>
                 Contribution(r) \in {<<>>, <<Get(r.jsonOutput, "context")>>}

C26_Witness ==
  /\ call.fn = "aggregate"
  /\ call.in = << HookOutput(<<"{", "context:ctx", ",", "suppressOutput:true", "}">>,
                             <<>>, JSNum(0)),
                  HookOutput(<<"{", "context:ctx", "}">>, <<>>, JSNum(0)) >>
  /\ call.out.contextToAdd =
       << JSStr(<<"ctx">>), JSStr(<<"ctx">>), JSStr(<<"{", "context:ctx", "}">>) >>

\* ------------------------------------------------------------------------
\* C27: the decision is deterministic under scheduling: the returned
\* DispatchResult is a function of the call and of the outputs of the
\* commands in request order (exit code, stdout, stderr, timeout outcome),
\* whatever the order in which the processes completed.
\* ------------------------------------------------------------------------
C27_DecisionIndependentOfCompletionOrder ==
  pc = "returned" =>
    LET outputs == [i \in Children |-> child[i].result]
    IN /\ ret.results = outputs
       /\ ret.shouldBlock <=> AllBlockSignals(outputs) # <<>>
       /\ ret.blockReason = LastBlockReason(outputs)
       /\ ~ret.shouldContinue <=> StopsAt(outputs) # {}
       /\ ret.stopReason = LastStopReason(outputs)
       /\ ret.contextToAdd = AllContributions(outputs)

C27_Witness ==
  /\ pc = "returned"
  /\ Len(child) = 2
  /\ child[2].closeOrd = 1
  /\ child[1].result.exitCode = 2
  /\ child[1].result.stderr = <<"blocked">>
  /\ BlocksByStructuredDecision(child[2].result)
  /\ ret.blockReason = JSStr(<<"nope">>)

\* ------------------------------------------------------------------------
\* C30: when the UserPromptSubmit dispatch returns shouldBlock = true,
\* submitPrompt returns false, the prompt is not added to the history and
\* neither onBeforeSubmit nor onAfterSubmit is called; the hooks are
\* dispatched before any of those steps.
\* ------------------------------------------------------------------------
Called(log, step) == \E k \in DOMAIN log : log[k] = step

C30_BlockedPromptNotAccepted ==
  call.fn = "submitPrompt" =>
    /\ call.in.dispatch.kind = "result" /\ call.in.dispatch.shouldBlock =>
         /\ ~call.out.returned
         /\ call.out.history = <<>>
         /\ ~Called(call.out.log, "addItem")
         /\ ~Called(call.out.log, "onBeforeSubmit")
         /\ ~Called(call.out.log, "onAfterSubmit")
    /\ \A k \in DOMAIN call.out.log : call.out.log[k] = "executeHooks" => k = 1
    /\ call.in.dispatch.kind # "none" => Called(call.out.log, "executeHooks")

C30_Witness ==
  /\ call.fn = "submitPrompt"
  /\ call.in.dispatch = [kind |-> "result", shouldBlock |-> TRUE]
  /\ call.in.onBeforeSubmit = "true"
  /\ call.in.onAfterSubmit = "ok"
  /\ call.in.addItem = "ok"
  /\ call.out.log = <<"executeHooks">>
  /\ ~call.out.returned

\* ------------------------------------------------------------------------
\* C31: in submitPrompt, stopExecution and stopSubagent a before-callback
\* that returns false makes the operation return false with nothing added
\* to the history, nothing dispatched to the session and the after-callback
\* not called; when the before-callback returns true or is absent and
\* nothing throws, the operation returns true and the after-callback is
\* called after the history item was added.
\* As stated it fails for submitPrompt when the UserPromptSubmit dispatch
\* blocks; it holds when the second half is limited to a prompt whose hook
\* dispatch did not block.
\* ------------------------------------------------------------------------
IsSessionOperation == call.fn \in {"submitPrompt", "stopExecution", "stopSubagent"}

BeforeCallback ==
  IF call.fn = "submitPrompt" THEN call.in.onBeforeSubmit ELSE call.in.onBeforeStop

AfterCallback ==
  IF call.fn = "submitPrompt" THEN call.in.onAfterSubmit ELSE call.in.onAfterStop

AfterName == IF call.fn = "submitPrompt" THEN "onAfterSubmit" ELSE "onAfterStop"

NothingDispatched == call.fn # "submitPrompt" => call.out.dispatched = <<>>

Vetoed ==
  /\ ~call.out.returned
  /\ call.out.history = <<>>
  /\ NothingDispatched
  /\ ~Called(call.out.log, "addItem")
  /\ ~Called(call.out.log, AfterName)

\* the operation went through: it returned true, added its item, and the
\* after-callback, when there is one, was called after addItem
WentThrough ==
  /\ call.out.returned
  /\ Len(call.out.history) = 1
  /\ Called(call.out.log, "addItem")
  /\ AfterCallback # "absent" =>
       \E j, k \in DOMAIN call.out.log :
         j < k /\ call.out.log[j] = "addItem" /\ call.out.log[k] = AfterName

NotVetoedNothingThrows ==
  /\ BeforeCallback \in {"true", "absent"}
  /\ call.in.addItem = "ok"
  /\ AfterCallback # "throws"

HooksBlocked ==
  /\ call.fn = "submitPrompt"
  /\ call.in.dispatch.kind = "result"
  /\ call.in.dispatch.shouldBlock

C31_BeforeCallbackDecides ==
  IsSessionOperation =>
    /\ BeforeCallback = "false" => Vetoed
    /\ NotVetoedNothingThrows => WentThrough

C31_BeforeCallbackDecidesUnlessBlocked ==
  IsSessionOperation =>
    /\ BeforeCallback = "false" => Vetoed
    /\ NotVetoedNothingThrows /\ ~HooksBlocked => WentThrough

C31_Witness ==
  /\ call.fn = "stopSubagent"
  /\ call.in.onBeforeStop = "false"
  /\ call.in.onAfterStop = "ok"
  /\ call.out.log = <<"onBeforeStop">>
  /\ ~call.out.returned

C31_WitnessWentThrough ==
  /\ call.fn = "stopExecution"
  /\ call.in.onBeforeStop = "true"
  /\ call.out.log = <<"onBeforeStop", "addItem", "onAfterStop">>
  /\ call.out.returned

\* ------------------------------------------------------------------------
\* C32: a stop that is not vetoed and in which nothing throws dispatches
\* {type: 'SET_EXECUTION_STOPPED', payload: true} (stopExecution) or
\* {type: 'REMOVE_SUBAGENT', payload: id} (stopSubagent) to the session,
\* adds the system message to the history and returns true.
\* ------------------------------------------------------------------------
SessionAction(type, payload) == [type |-> type, payload |-> payload]

StopNotVetoedNothingThrows ==
  /\ call.fn \in {"stopExecution", "stopSubagent"}
  /\ call.in.onBeforeStop \in {"true", "absent"}
  /\ call.in.addItem = "ok"
  /\ call.in.dispatch = "ok"
  /\ call.in.onAfterStop # "throws"

C32_StopChangesSessionState ==
  StopNotVetoedNothingThrows =>
    /\ call.out.returned
    /\ call.fn = "stopExecution" =>
         /\ call.out.dispatched = <<SessionAction("SET_EXECUTION_STOPPED", TRUE)>>
         /\ call.out.history = <<SystemMessage(<<"Execution stopped by user">>)>>
    /\ call.fn = "stopSubagent" =>
         /\ call.out.dispatched = <<SessionAction("REMOVE_SUBAGENT", call.id)>>
         /\ call.out.history =
              <<SystemMessage(<<"Subagent ", call.id, " stopped by user">>)>>

\* what the code does do in that case: the message is added and true is
\* returned, and nothing is dispatched
C32_StopAddsMessageOnly ==
  StopNotVetoedNothingThrows =>
    /\ call.out.returned
    /\ call.out.dispatched = <<>>
    /\ call.fn = "stopExecution" =>
         call.out.history = <<SystemMessage(<<"Execution stopped by user">>)>>
    /\ call.fn = "stopSubagent" =>
         call.out.history =
           <<SystemMessage(<<"Subagent ", call.id, " stopped by user">>)>>

\* ------------------------------------------------------------------------
\* C33: when a session operation (addItem or dispatch) or a callback throws
\* an Error during submitPrompt, stopExecution or stopSubagent, the
\* operation returns false, calls onError exactly once with that error (and
\* the subagent id for stopSubagent), does not call the after-callback
\* after the error, and does not throw to its caller.
\* ------------------------------------------------------------------------
BeforeName == IF call.fn = "submitPrompt" THEN "onBeforeSubmit" ELSE "onBeforeStop"

OnErrorArguments(step) ==
  IF call.fn = "stopSubagent" THEN <<ErrorOf(step), call.id>> ELSE <<ErrorOf(step)>>

\* the operation returned false and reported one of the given steps' error
Contained(steps) ==
  /\ ~call.out.returned
  /\ call.in.onError = "present" =>
       /\ Len(call.out.errors) = 1
       /\ \E step \in steps : call.out.errors[1] = OnErrorArguments(step)
       /\ call.out.log[Len(call.out.log)] = "onError"
  /\ call.in.onError = "absent" => call.out.errors = <<>>

\* the session operations of the call that throw when they are called
ThrowingSessionOperations(withDispatch) ==
  {step \in {"addItem"} : call.in.addItem = "throws"}
    \cup {step \in {"dispatch"} :
           withDispatch /\ call.fn # "submitPrompt" /\ call.in.dispatch = "throws"}

ErrorsContained(withDispatch) ==
  IsSessionOperation /\ ~HooksBlocked =>
    /\ BeforeCallback = "throws" =>
         Contained({BeforeName}) /\ ~Called(call.out.log, AfterName)
    /\ /\ BeforeCallback \in {"true", "absent"}
       /\ ThrowingSessionOperations(withDispatch) # {}
       => /\ Contained(ThrowingSessionOperations(withDispatch))
          /\ ~Called(call.out.log, AfterName)
    /\ /\ BeforeCallback \in {"true", "absent"}
       /\ ThrowingSessionOperations(withDispatch) = {}
       /\ AfterCallback = "throws"
       => Contained({AfterName})

C33_ErrorsContained == ErrorsContained(TRUE)

\* what the code does do: the errors of the steps it makes are contained,
\* and it makes no dispatch to the session
C33_ErrorsOfStepsMadeContained == ErrorsContained(FALSE)

C33_DispatchThrowsUnnoticed ==
  /\ call.fn = "stopExecution"
  /\ call.in = [onBeforeStop |-> "absent", addItem |-> "ok", dispatch |-> "throws",
                onAfterStop |-> "absent", onError |-> "present"]
  /\ call.out.returned
  /\ call.out.errors = <<>>

\* ------------------------------------------------------------------------
\* C40: when executeHooks throws, and when hookExecutor, hookConfig or
\* sessionId is not supplied, submitPrompt proceeds exactly as without
\* hooks (onBeforeSubmit, then addItem, then onAfterSubmit: same return
\* value, same history, same calls) and onError is not called for the hook
\* failure.
\* ------------------------------------------------------------------------
IsNotExecuteHooks(step) == step # "executeHooks"

WithoutHooks(o) == [o EXCEPT !.dispatch = [kind |-> "none", shouldBlock |-> FALSE]]

\* the steps of a submission are made in the order onBeforeSubmit, addItem,
\* onAfterSubmit, onError
StepRank(step) ==
  CASE step = "executeHooks" -> 0
    [] step = "onBeforeSubmit" -> 1
    [] step = "addItem" -> 2
    [] step = "onAfterSubmit" -> 3
    [] OTHER -> 4

C40_SubmitFailsOpen ==
  call.fn = "submitPrompt" /\ call.in.dispatch.kind \in {"throws", "none"} =>
    LET plain == submitPrompt(WithoutHooks(call.in), "prompt")
    IN /\ call.out.returned = plain.returned
       /\ call.out.history = plain.history
       /\ call.out.errors = plain.errors
       /\ SelectSeq(call.out.log, IsNotExecuteHooks) = plain.log
       /\ \A k \in DOMAIN call.out.errors :
            call.out.errors[k] # <<ErrorOf("executeHooks")>>
       /\ \A j, k \in DOMAIN call.out.log :
            j < k => StepRank(call.out.log[j]) < StepRank(call.out.log[k])
       /\ /\ call.in.onBeforeSubmit = "true"
          /\ call.in.addItem = "ok"
          /\ call.in.onAfterSubmit = "ok"
          => /\ call.out.returned
             /\ SelectSeq(call.out.log, IsNotExecuteHooks)
                  = <<"onBeforeSubmit", "addItem", "onAfterSubmit">>

C40_Witness ==
  /\ call.fn = "submitPrompt"
  /\ call.in.dispatch.kind = "throws"
  /\ call.in.onError = "present"
  /\ call.out.log = <<"executeHooks", "onBeforeSubmit", "addItem", "onAfterSubmit">>
  /\ call.out.returned
  /\ call.out.errors = <<>>

\* ------------------------------------------------------------------------
\* C34: in executeToolCall the tool's execute is run only if the call was
\* not blocked: when the hook-aware execution (executeToolWithHooks)
\* refuses or fails the call, the tool is not executed by another path, and
\* in every case the tool is executed at most once per tool call request.
\* ------------------------------------------------------------------------
C34_BlockedToolNotExecuted ==
  call.fn = "executeToolCall" =>
    /\ call.in.hookAware.blocked => call.out.executed = 0
    /\ call.in.hookAware.blocked \/ call.in.hookAware.throws =>
         ~Called(call.out.calls, "tool.execute")
    /\ call.out.executed <= 1

\* a call the PreToolUse hooks blocked, executed by the fallback path
C34_BlockedToolExecuted ==
  /\ call.fn = "executeToolCall"
  /\ call.in.hookAware.blocked
  /\ call.out.calls = <<"executeToolWithHooks", "tool.execute">>
  /\ call.out.executed = 1
  /\ call.out.logs[1].success

\* a tool executed twice for one request
C34_ToolExecutedTwice ==
  /\ call.fn = "executeToolCall"
  /\ call.out.executed = 2

\* what the code does do: without a throw of executeToolWithHooks the tool
\* runs at most once and not at all when the hooks blocked
C34_NoSecondPathUnlessHookAwareThrows ==
  call.fn = "executeToolCall" /\ ~call.in.hookAware.throws =>
    /\ call.in.hookAware.blocked => call.out.executed = 0
    /\ call.out.executed <= 1
    /\ call.in.hookAware.offered => ~Called(call.out.calls, "tool.execute")

\* ------------------------------------------------------------------------
\* C35: executeToolCall always returns a ToolCallResponseInfo and never
\* throws; when the tool is not in the registry it returns an error
\* response without invoking any hook or tool; when execution (hook-aware
\* or direct) throws, it returns a response whose error is set; exactly one
\* tool_call log entry is emitted per call, with success = true only when a
\* tool result was obtained.
\* ------------------------------------------------------------------------
ReturnsResponse ==
  /\ call.out.thrown = Undefined
  /\ call.out.response.callId = call.in.request.callId
  /\ call.out.response.responseParts.functionResponse.id = call.in.request.callId
  /\ call.out.response.responseParts.functionResponse.name = call.in.request.name

UnregisteredToolRefused ==
  ~call.in.registered =>
    /\ call.out.response.error # Undefined
    /\ call.out.calls = <<>>
    /\ call.out.executed = 0

OneLogEntry ==
  /\ Len(call.out.logs) = 1
  /\ call.out.logs[1].function_name = call.in.request.name
  /\ call.out.logs[1].success =>
       /\ call.out.response.error = Undefined
       /\ call.out.calls # <<>>
       /\ call.out.response.resultDisplay =
            ToolResultOf(call.out.calls[Len(call.out.calls)]).returnDisplay

\* the direct execution was made and threw
DirectThrows ==
  /\ call.in.registered
  /\ ~call.in.hookAware.offered \/ call.in.hookAware.throws
  /\ call.in.execute # "returns"

HookAwareThrows == call.in.registered /\ call.in.hookAware.throws

C35_AlwaysAResponse ==
  call.fn = "executeToolCall" =>
    /\ ReturnsResponse
    /\ UnregisteredToolRefused
    /\ HookAwareThrows \/ DirectThrows => call.out.response.error # Undefined
    /\ OneLogEntry

\* what the code does do: the error is set when the execution path taken
\* last throws; a throw of the hook-aware execution alone is not reported
C35_ResponseOfLastPath ==
  call.fn = "executeToolCall" =>
    /\ ReturnsResponse
    /\ UnregisteredToolRefused
    /\ DirectThrows =>
         /\ call.out.response.error = JSObj([message |-> MessageOf(call.in.execute)])
         /\ ~call.out.logs[1].success
    /\ OneLogEntry

C35_HookFailureNotReported ==
  /\ call.fn = "executeToolCall"
  /\ call.in.hookAware.throws
  /\ call.in.execute = "returns"
  /\ call.out.response.error = Undefined
  /\ call.out.logs[1].success

\* ------------------------------------------------------------------------
\* C36: once a result has set shouldBlock = true, no later result of the
\* same dispatch resets it (not a later decision 'approve', a later exit
\* code 0, or a later result without structured output); likewise
\* shouldContinue never returns to true once a result has set it to false.
\* ------------------------------------------------------------------------
\* the decision after the first k results
DecisionAfter(results, k) == ProcessResults(InitialDecision, SubSeq(results, 1, k))

C36_BlockingMonotone ==
  call.fn = "aggregate" =>
    LET results == call.out.results
    IN /\ \A j \in DOMAIN results, k \in DOMAIN results :
            j <= k =>
              /\ DecisionAfter(results, j).shouldBlock =>
                   DecisionAfter(results, k).shouldBlock
              /\ ~DecisionAfter(results, j).shouldContinue =>
                   ~DecisionAfter(results, k).shouldContinue
       /\ \A j \in DOMAIN results :
            /\ DecisionAfter(results, j).shouldBlock => call.out.shouldBlock
            /\ ~DecisionAfter(results, j).shouldContinue => ~call.out.shouldContinue
       /\ \A j \in DOMAIN results :
            /\ BlockSignals(results[j]) # <<>> => call.out.shouldBlock
            /\ j \in StopsAt(results) => ~call.out.shouldContinue

C36_Witness ==
  /\ call.fn = "aggregate"
  /\ Len(call.out.results) = 2
  /\ BlockSignals(call.out.results[1]) # <<>>
  /\ BlockSignals(call.out.results[2]) = <<>>
  /\ Get(call.out.results[2].jsonOutput, "decision") = JSStr(<<"approve">>)
  /\ call.out.results[2].exitCode = 0
  /\ call.out.shouldBlock

C36_WitnessContinue ==
  /\ call.fn = "aggregate"
  /\ Len(call.out.results) = 2
  /\ StopsAt(call.out.results) = {1}
  /\ Get(call.out.results[2].jsonOutput, "continue") = JSBool(TRUE)
  /\ ~call.out.shouldContinue

\* ------------------------------------------------------------------------
\* C37: in every result returned by executeHooks, shouldBlock = true
\* implies that blockReason is defined, a non-empty string the caller can
\* render, and shouldBlock = false implies that blockReason is undefined.
\* ------------------------------------------------------------------------
NonEmptyString(x) == x.t = "string" /\ x.v # <<>>

C37_BlockReasonIffBlocked ==
  call.fn = "aggregate" =>
    /\ call.out.shouldBlock => NonEmptyString(call.out.blockReason)
    /\ ~call.out.shouldBlock => call.out.blockReason = Undefined

\* a dispatch that blocks without a reason
C37_BlockedWithoutReason ==
  /\ call.fn = "aggregate"
  /\ call.out.shouldBlock
  /\ call.out.blockReason = Undefined

\* what the code does do: no reason without a block, and the reason of a
\* block is that of its last blocking signal, undefined when that signal is
\* a decision 'block' without reason
C37_ReasonOfLastSignal ==
  call.fn = "aggregate" =>
    /\ ~call.out.shouldBlock => call.out.blockReason = Undefined
    /\ call.out.shouldBlock =>
         /\ call.out.blockReason = LastBlockReason(call.out.results)
         /\ NonEmptyString(call.out.blockReason) \/ call.out.blockReason = Undefined

\* ------------------------------------------------------------------------
\* C39: a hook that timed out and was terminated without an exit code
\* (exitCode = -1) and without structured output on stdout leaves
\* shouldBlock, blockReason, shouldContinue, stopReason and contextToAdd
\* exactly as they would be without that result; the aggregation reads
\* neither timedOut nor error.
\* ------------------------------------------------------------------------
RemoveAt(seq, i) == SubSeq(seq, 1, i - 1) \o SubSeq(seq, i + 1, Len(seq))

SameDecision(out, d) ==
  /\ out.shouldBlock = d.shouldBlock
  /\ out.blockReason = d.blockReason
  /\ out.shouldContinue = d.shouldContinue
  /\ out.stopReason = d.stopReason
  /\ out.contextToAdd = d.contextToAdd

TimedOutEmpty(r) == r.timedOut /\ r.exitCode = -1 /\ r.jsonOutput = Undefined

ErrorValues == {Undefined, JSStr(<<"ENOENT">>)}

C39_TimeoutFailsOpen ==
  call.fn = "aggregate" =>
    LET results == call.out.results
    IN \A i \in DOMAIN results :
         /\ TimedOutEmpty(results[i]) =>
              SameDecision(call.out, ProcessResults(InitialDecision, RemoveAt(results, i)))
         /\ \A timedOut \in BOOLEAN, error \in ErrorValues :
              SameDecision(call.out,
                ProcessResults(InitialDecision,
                  [results EXCEPT ![i].timedOut = timedOut, ![i].error = error]))

C39_Witness ==
  /\ call.fn = "aggregate"
  /\ Len(call.out.results) = 2
  /\ TimedOutEmpty(call.out.results[2])
  /\ call.out.results[2].stdout = <<"x">>
  /\ call.out.results[1].exitCode = 0
  /\ call.out.contextToAdd = <<JSStr(<<"x">>)>>
  /\ ~call.out.shouldBlock
  /\ call.out.shouldContinue

\* ------------------------------------------------------------------------
\* C38: in every HookResult, timedOut = true implies success = false, so
\* the stdout of a timed-out hook is never appended to contextToAdd.
\* ------------------------------------------------------------------------
TimedOutResults == {i \in Children : child[i].result.set /\ child[i].result.timedOut}

C38_TimedOutNeverSuccessful ==
  /\ \A i \in TimedOutResults : ~child[i].result.success
  /\ pc = "returned" =>
       \A i \in TimedOutResults :
         child[i].result.stdout # <<>> =>
           \A k \in DOMAIN ret.contextToAdd :
             ret.contextToAdd[k] # JSStr(child[i].result.stdout)

\* a hook that got SIGTERM at its timeout and then exited with code 0
C38_TimedOutAndSuccessful ==
  /\ pc = "returned"
  /\ \E i \in TimedOutResults :
       /\ child[i].result.success
       /\ KillsOf(i, "SIGTERM") # {}
       /\ child[i].result.stdout # <<>>
       /\ \E k \in DOMAIN ret.contextToAdd :
            ret.contextToAdd[k] = JSStr(child[i].result.stdout)

\* what the code does do: success follows the exit code alone, so a
\* timed-out hook is unsuccessful unless it exits with code 0 after all
C38_TimedOutSuccessfulOnlyByExitCode ==
  \A i \in TimedOutResults :
    /\ child[i].result.success <=> child[i].result.exitCode = 0
    /\ child[i].exitCode = JSNull => ~child[i].result.success

====
